---- MODULE Spec2Model ----
(***************************************************************************)
(* The agent run loop of MyClaw (runAgent) with its failover state, its    *)
(* context-overflow recovery, the transcript converter with orphan repair  *)
(* and the transcript file the loop reads and appends to.                  *)
(*                                                                         *)
(* One run is modelled at the granularity of JavaScript's event loop: a    *)
(* state is a point where runAgent is suspended in an await (provider      *)
(* call, summariser call, tool execution, cooldown sleep) or has settled;  *)
(* an action is the completion of that await together with all the         *)
(* synchronous code that follows it up to the next await.                  *)
(***************************************************************************)
EXTENDS Integers, Sequences, FiniteSets, TLC

\* ------------------------------------------------------------------------
\* Bounds of the model (inputs are drawn from sets these definitions size)
\* ------------------------------------------------------------------------

\* largest number of auth profiles in config.provider.authProfiles
MaxProfiles == 2
\* largest config.agent.maxRetries
MaxRetriesCfg == 3
\* largest config.agent.maxIterations
MaxIterationsCfg == 2
\* largest number of rejected provider calls in one run
MaxFailures == 4
\* largest number of markProfileFailed calls on the profile chain taken alone
MaxMarks == 8
\* longest message list handed to the converter and to the repair
MaxLen == 4
\* largest number of appendMessage and appendMessages calls on the transcript log
MaxAppends == 3
\* largest number of messages in one appendMessages call
MaxBatch == 2
\* largest number of lines after the header in a transcript file that is read
MaxLines == 4
\* largest number of saveSessionStore calls by callers of the index
MaxSaves == 1
\* largest number of writes by callers to the objects they hold
MaxWrites == 1
\* largest number of loadSessionStore calls by callers of the index
MaxLoads == 2
\* largest number of updateSessionMeta calls
MaxUpserts == 2
\* latest time of the clock of the index
MaxClock == 2
\* buildSessionKey calls
MaxKeys == 2
\* runs of runAgent in one process
MaxRuns == 2

\* ------------------------------------------------------------------------
\* Program constants
\* ------------------------------------------------------------------------

BASE_COOLDOWN_MS == 1000
MAX_COOLDOWN_MS == 60000
DEFAULT_COMPACTION_RECENT_COUNT == 10
DEFAULT_MAX_TOOL_RESULT_TRUNCATE_CHARS == 20000
\* config.agent.maxToolResultChars as the run-loop tests configure it
MaxToolResultChars == 50000
\* the floor of the cooldown sleep: sleep(Math.max(minWait, 100), signal)
MIN_SLEEP_MS == 100
\* "\n[truncated]".length
TRUNCATED_SUFFIX_LEN == 12

\* the absent value of an optional field (failedAt?: number, toolCallId?: string)
None == -1

\* ------------------------------------------------------------------------
\* Messages.  Text is abstracted to a token (txt: which text it is) and a
\* length in characters (len); every message carries all fields so that
\* lists are homogeneous, the fields a role does not have are left empty.
\* ------------------------------------------------------------------------

ToolCall(id, name) == [id |-> id, name |-> name]

\* The shape of a message's content is kept as the sequence of the types of
\* its parts (blocks): "text", "image", "thinking", "toolCall".  A user
\* message whose content is a plain string has the shape STRING_CONTENT.
STRING_CONTENT == <<"string">>

\* [{type: "text", text}]
SingleText == <<"text">>

\* the content of an assistant message that has one text part followed by its
\* tool calls
TextThenCalls(calls) == SingleText \o [i \in 1..Len(calls) |-> "toolCall"]

UserMessage(txt, ts) ==
  [role |-> "user", txt |-> txt, len |-> 1, calls |-> <<>>,
   toolCallId |-> "", toolName |-> "", isError |-> FALSE, ts |-> ts,
   blocks |-> STRING_CONTENT]

AssistantMessage(txt, calls, ts) ==
  [role |-> "assistant", txt |-> txt, len |-> 1, calls |-> calls,
   toolCallId |-> "", toolName |-> "", isError |-> FALSE, ts |-> ts,
   blocks |-> TextThenCalls(calls)]

ToolResultMessage(id, name, txt, len, isError, ts) ==
  [role |-> "toolResult", txt |-> txt, len |-> len, calls |-> <<>>,
   toolCallId |-> id, toolName |-> name, isError |-> isError, ts |-> ts,
   blocks |-> SingleText]

\* text tokens of the fixed texts the code writes
TXT_SUMMARY == 0
TXT_MISSING == -2
TXT_UNKNOWN_TOOL == -3
TXT_TOOL_ERROR == -4

extractToolCalls(m) == m.calls

Range(s) == {s[i] : i \in 1..Len(s)}

Min(a, b) == IF a <= b THEN a ELSE b
Max(a, b) == IF a >= b THEN a ELSE b

\* ------------------------------------------------------------------------
\* Transcript records and the converter
\* ------------------------------------------------------------------------

\* a record without meta.contentBlocks
NoContentBlocks == <<"absent">>

\* one message line of the JSONL file: {role, content, ts, toolCallId?, meta?}
\* content is a string: the text (txt, len).  meta is kept as its fields:
\* contentBlocks (blocks, with the tool calls among them in calls), toolName,
\* isError.  An assistant record written by a run has its content blocks.
TranscriptMessage(role, txt, len, ts, toolCallId, calls, toolName, isError) ==
  [role |-> role, txt |-> txt, len |-> len, ts |-> ts, toolCallId |-> toolCallId,
   calls |-> calls, toolName |-> toolName, isError |-> isError,
   blocks |-> IF role = "assistant" THEN TextThenCalls(calls) ELSE NoContentBlocks]

\* user: content is the string itself or the text parts joined by "\n";
\* assistant: content is extractText(msg), meta.contentBlocks is msg.content;
\* toolResult: content is the text parts joined by "\n"
messageToTranscriptOne(m) ==
  IF m.role = "user"
  THEN TranscriptMessage("user", m.txt, m.len, m.ts, "", <<>>, "", FALSE)
  ELSE IF m.role = "assistant"
  THEN [TranscriptMessage("assistant", m.txt, m.len, m.ts, "", m.calls, "", FALSE)
          EXCEPT !.blocks = m.blocks]
  ELSE TranscriptMessage("tool", m.txt, m.len, m.ts, m.toolCallId, <<>>,
                         m.toolName, m.isError)

messagesToTranscript(ms) == [i \in 1..Len(ms) |-> messageToTranscriptOne(ms[i])]

\* user: content is t.content, a string; assistant: meta.contentBlocks if the
\* record has them, else one text block; tool: one text block of t.content
transcriptToMessageOne(t) ==
  IF t.role = "user" THEN UserMessage(t.txt, t.ts)
  ELSE IF t.role = "assistant"
  THEN IF t.blocks = NoContentBlocks
       THEN AssistantMessage(t.txt, <<>>, t.ts)
       ELSE [AssistantMessage(t.txt, t.calls, t.ts) EXCEPT !.blocks = t.blocks]
  ELSE ToolResultMessage(IF t.toolCallId = "" THEN "unknown" ELSE t.toolCallId,
                         IF t.toolName = "" THEN "unknown" ELSE t.toolName,
                         t.txt, t.len, t.isError, t.ts)

RECURSIVE transcriptToMessages(_)
transcriptToMessages(ts) ==
  IF ts = <<>> THEN <<>>
  ELSE IF Head(ts).role = "system" THEN transcriptToMessages(Tail(ts))
  ELSE <<transcriptToMessageOne(Head(ts))>> \o transcriptToMessages(Tail(ts))

\* appendMessages: one appendFileSync of all the lines; nothing for an empty batch
appendMessages(file, batch) == file \o batch

\* ------------------------------------------------------------------------
\* Orphaned tool call repair
\* ------------------------------------------------------------------------

\* ids answered by the tool results that follow position i up to the next
\* assistant message (the look-ahead loop over j)
\* mutant: the look-ahead finds no tool result
AnsweredFrom_None(ms, j) == {}

RECURSIVE AnsweredFrom(_, _)
AnsweredFrom(ms, j) ==
  IF j > Len(ms) \/ ms[j].role = "assistant" THEN {}
  ELSE (IF ms[j].role = "toolResult" THEN {ms[j].toolCallId} ELSE {})
       \cup AnsweredFrom(ms, j + 1)

\* mutant: the synthetic results are stamped with the time 0 instead of the
\* assistant message's
SyntheticResults_Unstamped(calls, answered, ts) ==
  LET RECURSIVE From(_)
      From(cs) ==
        IF cs = <<>> THEN <<>>
        ELSE (IF Head(cs).id \in answered THEN <<>>
              ELSE <<ToolResultMessage(Head(cs).id, Head(cs).name, TXT_MISSING, 1,
                                       TRUE, 0)>>)
             \o From(Tail(cs))
  IN From(calls)

RECURSIVE SyntheticResults(_, _, _)
SyntheticResults(calls, answered, ts) ==
  IF calls = <<>> THEN <<>>
  ELSE (IF Head(calls).id \in answered THEN <<>>
        ELSE <<ToolResultMessage(Head(calls).id, Head(calls).name, TXT_MISSING, 1,
                                 TRUE, ts)>>)
       \o SyntheticResults(Tail(calls), answered, ts)

RECURSIVE RepairFrom(_, _)
RepairFrom(ms, i) ==
  IF i > Len(ms) THEN <<>>
  ELSE <<ms[i]>>
       \o (IF ms[i].role = "assistant"
           THEN SyntheticResults(extractToolCalls(ms[i]), AnsweredFrom(ms, i + 1),
                                 ms[i].ts)
           ELSE <<>>)
       \o RepairFrom(ms, i + 1)

\* mutant: the history is handed on unrepaired
repairOrphanedToolCalls_Unrepaired(ms) == ms

repairOrphanedToolCalls(ms) == RepairFrom(ms, 1)

\* ------------------------------------------------------------------------
\* Context-overflow guard
\* ------------------------------------------------------------------------

\* compactMessages returns its argument when there is nothing to compact,
\* without calling the summariser
NothingToCompact(ms) == Len(ms) <= DEFAULT_COMPACTION_RECENT_COUNT

\* [summaryMsg, ...recentMessages], once the summariser has returned
compactMessages(ms, ts) ==
  IF NothingToCompact(ms) THEN ms
  ELSE <<UserMessage(TXT_SUMMARY, ts)>>
       \o SubSeq(ms, Len(ms) - DEFAULT_COMPACTION_RECENT_COUNT + 1, Len(ms))

\* number of decimal digits of n >= 0
RECURSIVE Digits(_)
Digits(n) == IF n < 10 THEN 1 ELSE 1 + Digits(n \div 10)

\* c.text.slice(0, maxChars) + `\n[truncated ${c.text.length - maxChars} chars]`
TruncatedLen(len, maxChars) ==
  IF len <= maxChars THEN len
  ELSE maxChars + 12 + Digits(len - maxChars) + 7

truncateOversizedToolResults(ms) ==
  [i \in 1..Len(ms) |->
     IF ms[i].role # "toolResult" THEN ms[i]
     ELSE [ms[i] EXCEPT !.len =
             TruncatedLen(ms[i].len, DEFAULT_MAX_TOOL_RESULT_TRUNCATE_CHARS)]]

\* truncateToolResult of the run loop: text.slice(0, maxChars) + "\n[truncated]"
truncateToolResult(len, maxChars) ==
  IF len <= maxChars THEN len ELSE maxChars + TRUNCATED_SUFFIX_LEN

\* ------------------------------------------------------------------------
\* Failover: classification and per-run profile state
\* ------------------------------------------------------------------------

FailoverReasons ==
  {"auth", "rate_limit", "billing", "timeout", "quota", "context_overflow", "unknown"}

isRetriable(reason) == reason \in {"auth", "rate_limit", "billing", "timeout"}

nextProfileIndex(cur, total) == (cur + 1) % total

ProfileState(index) == [index |-> index, cooldownMs |-> BASE_COOLDOWN_MS, failedAt |-> None]

createProfileStates(count) == [i \in 0..(count - 1) |-> ProfileState(i)]

isProfileCoolingDown(state, t) ==
  state.failedAt # None /\ t - state.failedAt < state.cooldownMs

\* mutant: the doubling is not capped
markProfileFailed_Uncapped(state, t) ==
  [state EXCEPT !.failedAt = t, !.cooldownMs = state.cooldownMs * 2]

markProfileFailed(state, t) ==
  [state EXCEPT !.failedAt = t, !.cooldownMs = Min(state.cooldownMs * 2, MAX_COOLDOWN_MS)]

markProfileGood(state) ==
  [state EXCEPT !.failedAt = None, !.cooldownMs = BASE_COOLDOWN_MS]

\* the loop of findAvailableProfile from offset i: the index found, or None
RECURSIVE FindFrom(_, _, _, _, _)
FindFrom(states, startIndex, count, t, i) ==
  IF i >= count THEN None
  ELSE IF ~isProfileCoolingDown(states[(startIndex + i) % count], t)
       THEN (startIndex + i) % count
       ELSE FindFrom(states, startIndex, count, t, i + 1)

\* mutant: the profile at the current index is used whatever its cooldown
findAvailableProfile_Current(states, startIndex, count, t) == startIndex

findAvailableProfile(states, startIndex, count, t) ==
  FindFrom(states, startIndex, count, t, 0)

\* Math.min(...profileStates.map(s => failedAt !== undefined
\*                                    ? cooldownMs - (now - failedAt) : 0))
RECURSIVE MinOver(_, _, _)
MinOver(states, t, i) ==
  LET w == IF states[i].failedAt # None
           THEN states[i].cooldownMs - (t - states[i].failedAt) ELSE 0
  IN IF i = 0 THEN w ELSE Min(w, MinOver(states, t, i - 1))

minWait(states, count, t) == MinOver(states, t, count - 1)

\* ------------------------------------------------------------------------
\* Usage
\* ------------------------------------------------------------------------

Usage(input, output, cacheRead, cacheWrite, totalTokens, cost) ==
  [input |-> input, output |-> output, cacheRead |-> cacheRead,
   cacheWrite |-> cacheWrite, totalTokens |-> totalTokens, cost |-> cost]

Cost(input, output, cacheRead, cacheWrite, total) ==
  [input |-> input, output |-> output, cacheRead |-> cacheRead,
   cacheWrite |-> cacheWrite, total |-> total]

emptyUsage == Usage(0, 0, 0, 0, 0, Cost(0, 0, 0, 0, 0))

\* mutant: the cache fields are summed like the others
mergeUsage_SumsCache(accumulated, latest) ==
  Usage(accumulated.input + latest.input,
        accumulated.output + latest.output,
        accumulated.cacheRead + latest.cacheRead,
        accumulated.cacheWrite + latest.cacheWrite,
        accumulated.totalTokens + latest.totalTokens,
        Cost(accumulated.cost.input + latest.cost.input,
             accumulated.cost.output + latest.cost.output,
             accumulated.cost.cacheRead + latest.cost.cacheRead,
             accumulated.cost.cacheWrite + latest.cost.cacheWrite,
             accumulated.cost.total + latest.cost.total))

mergeUsage(accumulated, latest) ==
  Usage(accumulated.input + latest.input,
        accumulated.output + latest.output,
        latest.cacheRead,
        latest.cacheWrite,
        accumulated.totalTokens + latest.totalTokens,
        Cost(accumulated.cost.input + latest.cost.input,
             accumulated.cost.output + latest.cost.output,
             latest.cost.cacheRead,
             latest.cost.cacheWrite,
             accumulated.cost.total + latest.cost.total))

\* ------------------------------------------------------------------------
\* The run: state
\* ------------------------------------------------------------------------

VARIABLES
  config,        \* [profiles, maxRetries, maxIterations]: the limits of RunAgentParams.config
  transcript,    \* the message lines of the session's JSONL file
  aborted,       \* signal.aborted
  now,           \* Date.now()
  pc,            \* where the run is: "idle", an await ("call", "summarize",
                 \* "tool_exec", "sleep") or settled ("done", "failed")
  run,           \* the locals of runAgent (see InitialLocals)
  events,        \* what emit() has delivered, in order
  obs            \* observations of the run kept for stating properties

\* the state of one run of runAgent
runVars == <<config, transcript, aborted, now, pc, run, events, obs>>

\* The library functions taken alone (converter and repair) work on a message
\* list handed to them
VARIABLES
  input,         \* the argument of the last library call
  output,        \* what that call returned
  op             \* which call it was: "none" before any call

convVars == <<input, output, op>>

\* The transcript log taken alone (appendMessage, appendMessages,
\* loadTranscript, countMessages) works on the files of the sessions directory
VARIABLES
  files,         \* session key -> the transcript file at its path: whether it
                 \* exists, and its lines
  writing,       \* the call that is between two filesystem writes: its key and
                 \* the writes it has still to make
  appends        \* the append calls made so far, for stating properties

logVars == <<files, writing, appends>>

\* The session metadata index taken alone (store.ts) works on sessions.json,
\* on its module-level cache and on the objects its callers hold
VARIABLES
  heap,          \* the objects in memory: the maps (session key -> reference of
                 \* an entry) and the entries, each under its reference
  storeFile,     \* sessions.json: whether it exists, the map it holds, its mtime
  cache,         \* cachedStore (a reference, NoRef for null) and cachedMtimeMs
  held,          \* the references the callers hold: the maps that
                 \* loadSessionStore returned, the entries that
                 \* updateSessionMeta returned; and how many maps they saved
                 \* and how many writes they made to these objects
  upserts        \* the updateSessionMeta calls made so far, for stating
                 \* properties

storeVars == <<heap, storeFile, cache, held, upserts>>

\* The session keys taken alone (session-key.ts): keys are built from
\* parameters, parsed back, and turned into file slugs
VARIABLES
  keyParams,     \* the SessionKeyParams of the buildSessionKey calls, in order
  built,         \* the keys these calls returned
  parsedKeys,    \* what parseSessionKey returned for them
  slugs          \* what sessionKeyToSlug returned for them

keyVars == <<keyParams, built, parsedKeys, slugs>>

\* Several runs of runAgent in one process share the sessions directory
VARIABLES
  procs,         \* the runs: for each its session key, its model and the
                 \* state of its run (as Cur)
  disk           \* transcript path -> the message lines of the file there

concVars == <<procs, disk>>

\* everything outside the run
libVars == <<convVars, logVars, storeVars, keyVars, concVars>>

vars == <<runVars, libVars>>

\* no library call has been made
ConvIdle ==
  /\ input = <<>>
  /\ output = <<>>
  /\ op = "none"

\* the transcript log is not used
LogIdle ==
  /\ files = <<>>
  /\ writing = <<>>
  /\ appends = <<>>

\* the index is not used
StoreIdle ==
  /\ heap = <<>>
  /\ storeFile = <<>>
  /\ cache = <<>>
  /\ held = <<>>
  /\ upserts = <<>>

\* no session key is built
KeyIdle ==
  /\ keyParams = <<>>
  /\ built = <<>>
  /\ parsedKeys = <<>>
  /\ slugs = <<>>

\* no concurrent runs
ConcIdle ==
  /\ procs = <<>>
  /\ disk = <<>>

LibIdle == ConvIdle /\ LogIdle /\ StoreIdle /\ KeyIdle /\ ConcIdle

\* the program state an operation works on, as one record
Cur ==
  [transcript |-> transcript, aborted |-> aborted, now |-> now, pc |-> pc,
   run |-> run, events |-> events, obs |-> obs]

Commit(s) ==
  /\ transcript' = s.transcript
  /\ aborted' = s.aborted
  /\ now' = s.now
  /\ pc' = s.pc
  /\ run' = s.run
  /\ events' = s.events
  /\ obs' = s.obs
  /\ UNCHANGED config
  /\ UNCHANGED libVars

\* the tools createAgentTools registers, as far as the loop tells them apart
ToolNames == {"apply_patch"}

\* the text token of the user message of this run
TXT_USER == 1

InitialLocals ==
  [messages |-> <<>>, historyLength |-> 0, profileStates |-> <<>>,
   currentProfileIndex |-> 0, compactionAttempted |-> FALSE,
   truncationAttempted |-> FALSE, iterations |-> 0, retries |-> 0,
   toolCalls |-> <<>>, toolIdx |-> 0, sleepMs |-> 0, error |-> "",
   totalUsage |-> emptyUsage, lastCallUsage |-> emptyUsage,
   result |-> [iterations |-> 0, maxIterationsReached |-> FALSE, reply |-> None,
               usage |-> emptyUsage, lastCallUsage |-> emptyUsage]]

InitialObs ==
  [transcript0 |-> <<>>,     \* the file's message lines when the run started
   produced |-> <<>>,        \* assistant messages and tool results produced by this run
   stages |-> <<>>,          \* overflow handling of the current iteration, in order
   attempts |-> 0,           \* provider call attempts of the current iteration,
                             \* those that follow an overflow recovery left out
   reattempts |-> 0,         \* ... and those that follow an overflow recovery
   recovering |-> FALSE,     \* an overflow recovery stage ran and no attempt followed yet
   calls |-> <<>>,           \* every provider call attempt of the run and its outcome
   selectedFrom |-> 0,       \* currentProfileIndex when the last selection started
   retryPending |-> FALSE,   \* a retriable failure was retried and not yet re-attempted
   coolingNoBudget |-> FALSE,\* a selection found every profile cooling down
                             \* with retries = maxRetries
   usages |-> <<>>,          \* the usage of every successful provider call, in order
   failures |-> <<>>,        \* per profile: markProfileFailed calls since the run
                             \* started or since its last markProfileGood
   nextTxt |-> 2]            \* the next fresh text token

\* ------------------------------------------------------------------------
\* The run: the synchronous code between awaits
\* ------------------------------------------------------------------------

Emit(s, e) == [s EXCEPT !.events = Append(@, e)]

\* mutant: the messages of the run so far are written before the error leaves
Throw_Persisting(s, err) ==
  [s EXCEPT !.pc = "failed", !.run.error = err,
            !.transcript = appendMessages(@, messagesToTranscript(s.obs.produced))]

Throw(s, err) == [s EXCEPT !.pc = "failed", !.run.error = err]

\* extractText of the last assistant message (its text token), "" (None) if none
RECURSIVE LastAssistantText(_, _)
LastAssistantText(ms, i) ==
  IF i = 0 THEN None
  ELSE IF ms[i].role = "assistant" THEN ms[i].txt
  ELSE LastAssistantText(ms, i - 1)

\* mutant: the iteration count of the result is one too high at the cap
PersistAndReturn_OffByOne(s, maxReached) ==
  LET ms == s.run.messages
      newMessages == SubSeq(ms, s.run.historyLength, Len(ms))
      result == [iterations |-> s.run.iterations + 1,
                 maxIterationsReached |-> maxReached,
                 reply |-> LastAssistantText(ms, Len(ms)),
                 usage |-> s.run.totalUsage,
                 lastCallUsage |-> s.run.lastCallUsage]
  IN Emit([s EXCEPT !.transcript = appendMessages(@, messagesToTranscript(newMessages)),
                    !.run.result = result,
                    !.pc = "done"],
          [type |-> "done"])

\* messages.slice(historyLength - 1), messagesToTranscript, appendMessages,
\* the result record, emit done
PersistAndReturn(s, maxReached) ==
  LET ms == s.run.messages
      newMessages == SubSeq(ms, s.run.historyLength, Len(ms))
      result == [iterations |-> IF maxReached THEN s.run.iterations
                                ELSE s.run.iterations + 1,
                 maxIterationsReached |-> maxReached,
                 reply |-> LastAssistantText(ms, Len(ms)),
                 usage |-> s.run.totalUsage,
                 lastCallUsage |-> s.run.lastCallUsage]
  IN Emit([s EXCEPT !.transcript = appendMessages(@, messagesToTranscript(newMessages)),
                    !.run.result = result,
                    !.pc = "done"],
          [type |-> "done"])

\* the head of the retry loop: while (retries <= maxRetries), the abort check,
\* the profile selection, llm_start and the provider call it suspends in
RetryLoop(s) ==
  IF s.run.retries > config.maxRetries
  THEN Throw(s, "retries_exhausted")
  ELSE IF s.aborted THEN Throw(s, "cancelled")
  ELSE
    LET found == findAvailableProfile(s.run.profileStates, s.run.currentProfileIndex,
                                      config.profiles, s.now)
    IN IF found = None
       THEN [s EXCEPT !.pc = "sleep",
                      !.run.sleepMs = Max(minWait(s.run.profileStates, config.profiles,
                                                  s.now), MIN_SLEEP_MS),
                      !.obs.coolingNoBudget = (s.run.retries >= config.maxRetries)]
       ELSE Emit([s EXCEPT !.pc = "call",
                           !.run.currentProfileIndex = found,
                           !.obs.selectedFrom = s.run.currentProfileIndex,
                           !.obs.attempts = IF s.obs.recovering THEN @ ELSE @ + 1,
                           !.obs.reattempts = IF s.obs.recovering THEN @ + 1 ELSE @,
                           !.obs.recovering = FALSE,
                           !.obs.retryPending = FALSE],
                 [type |-> "llm_start", iteration |-> s.run.iterations])

\* the head of the iteration loop
IterationLoop(s) ==
  IF s.run.iterations >= config.maxIterations
  THEN PersistAndReturn(s, TRUE)
  ELSE IF s.aborted THEN Throw(s, "cancelled")
  ELSE RetryLoop([s EXCEPT !.run.retries = 0])

\* messages.push(toolResult), emit tool_end
PushToolResult(s, r) ==
  Emit([s EXCEPT !.run.messages = Append(@, r),
                 !.run.toolIdx = @ + 1,
                 !.obs.produced = Append(@, r)],
       [type |-> "tool_end", toolCallId |-> r.toolCallId, isError |-> r.isError])

\* mutant: the recovery flags outlive the iteration
RECURSIVE ToolLoop_KeepsFlags(_)
ToolLoop_KeepsFlags(s) ==
  IF s.run.toolIdx > Len(s.run.toolCalls)
  THEN IterationLoop([s EXCEPT !.run.iterations = @ + 1,
                               !.obs.stages = <<>>,
                               !.obs.attempts = 0,
                               !.obs.reattempts = 0])
  ELSE IF s.aborted THEN Throw(s, "cancelled")
  ELSE
    LET tc == s.run.toolCalls[s.run.toolIdx]
        started == Emit(s, [type |-> "tool_start", toolCallId |-> tc.id])
    IN IF tc.name \notin ToolNames
       THEN ToolLoop_KeepsFlags(PushToolResult(started,
              ToolResultMessage(tc.id, tc.name, TXT_UNKNOWN_TOOL, 1, TRUE, s.now)))
       ELSE [started EXCEPT !.pc = "tool_exec"]

\* the loop over the tool calls from toolIdx on, up to the next tool.execute
RECURSIVE ToolLoop(_)
ToolLoop(s) ==
  IF s.run.toolIdx > Len(s.run.toolCalls)
  THEN IterationLoop([s EXCEPT !.run.compactionAttempted = FALSE,
                               !.run.truncationAttempted = FALSE,
                               !.run.iterations = @ + 1,
                               !.obs.stages = <<>>,
                               !.obs.attempts = 0,
                               !.obs.reattempts = 0])
  ELSE IF s.aborted THEN Throw(s, "cancelled")
  ELSE
    LET tc == s.run.toolCalls[s.run.toolIdx]
        started == Emit(s, [type |-> "tool_start", toolCallId |-> tc.id])
    IN IF tc.name \notin ToolNames
       THEN ToolLoop(PushToolResult(started,
              ToolResultMessage(tc.id, tc.name, TXT_UNKNOWN_TOOL, 1, TRUE, s.now)))
       ELSE [started EXCEPT !.pc = "tool_exec"]

\* streamLLM: every event of the provider's stream is forwarded as llm_stream, in
\* the order the stream yields them
RECURSIVE ForwardStream(_, _)
ForwardStream(s, stream) ==
  IF stream = <<>> THEN s
  ELSE ForwardStream(Emit(s, [type |-> "llm_stream", event |-> Head(stream)]),
                     Tail(stream))

\* mutant: llm_end is not emitted
OnCallSuccess_NoLlmEnd(s, assistantMsg, usage, stream) ==
  LET cur == s.run.currentProfileIndex
      s0 == ForwardStream(s, stream)
      s1 == [s0 EXCEPT !.run.profileStates[cur] = markProfileGood(@),
                       !.obs.failures[cur] = 0,
                       !.run.lastCallUsage = usage,
                       !.run.totalUsage = mergeUsage(@, usage),
                       !.obs.usages = Append(@, usage),
                       !.run.messages = Append(@, assistantMsg),
                       !.obs.produced = Append(@, assistantMsg)]
      toolCalls == extractToolCalls(assistantMsg)
  IN IF Len(toolCalls) = 0
     THEN PersistAndReturn(s1, FALSE)
     ELSE ToolLoop([s1 EXCEPT !.run.toolCalls = toolCalls, !.run.toolIdx = 1])

\* the success path of the provider call
OnCallSuccess(s, assistantMsg, usage, stream) ==
  LET cur == s.run.currentProfileIndex
      s0 == ForwardStream(s, stream)
      s1 == Emit([s0 EXCEPT !.run.profileStates[cur] = markProfileGood(@),
                            !.obs.failures[cur] = 0,
                            !.run.lastCallUsage = usage,
                            !.run.totalUsage = mergeUsage(@, usage),
                            !.obs.usages = Append(@, usage),
                            !.run.messages = Append(@, assistantMsg),
                            !.obs.produced = Append(@, assistantMsg)],
                 [type |-> "llm_end", message |-> assistantMsg.txt])
      toolCalls == extractToolCalls(assistantMsg)
  IN IF Len(toolCalls) = 0
     THEN PersistAndReturn(s1, FALSE)
     ELSE ToolLoop([s1 EXCEPT !.run.toolCalls = toolCalls, !.run.toolIdx = 1])

\* mutant: the re-attempt after a recovery stage is counted as a retry
AfterRecovery_Counted(s, oldCount) ==
  RetryLoop(Emit([s EXCEPT !.obs.recovering = TRUE, !.run.retries = @ + 1],
                 [type |-> "compaction", oldCount |-> oldCount,
                  newCount |-> Len(s.run.messages)]))

\* emit compaction, continue
AfterRecovery(s, oldCount) ==
  RetryLoop(Emit([s EXCEPT !.obs.recovering = TRUE], [type |-> "compaction", oldCount |-> oldCount,
                     newCount |-> Len(s.run.messages)]))

\* mutant: compaction is not recorded as attempted
OnContextOverflow_Unflagged(s) ==
  IF ~s.run.compactionAttempted
  THEN LET s1 == [s EXCEPT !.obs.stages = Append(@, "compaction")]
       IN IF NothingToCompact(s.run.messages)
          THEN AfterRecovery(s1, Len(s.run.messages))
          ELSE [s1 EXCEPT !.pc = "summarize"]
  ELSE Throw([s EXCEPT !.obs.stages = Append(@, "terminal")], "terminal_overflow")

\* reason === "context_overflow"
OnContextOverflow(s) ==
  IF ~s.run.compactionAttempted
  THEN LET s1 == [s EXCEPT !.run.compactionAttempted = TRUE,
                           !.obs.stages = Append(@, "compaction")]
       IN IF NothingToCompact(s.run.messages)
          THEN AfterRecovery(s1, Len(s.run.messages))
          ELSE [s1 EXCEPT !.pc = "summarize"]
  ELSE IF ~s.run.truncationAttempted
  THEN AfterRecovery([s EXCEPT !.run.truncationAttempted = TRUE,
                               !.run.messages = truncateOversizedToolResults(@),
                               !.obs.stages = Append(@, "truncation")],
                     Len(s.run.messages))
  ELSE Throw([s EXCEPT !.obs.stages = Append(@, "terminal")], "terminal_overflow")

\* mutant: the retry is not counted
OnRetriable_Uncounted(s, reason) ==
  LET cur == s.run.currentProfileIndex
      nextIdx == nextProfileIndex(cur, config.profiles)
  IN RetryLoop(
       Emit([s EXCEPT !.run.profileStates[cur] = markProfileFailed(@, s.now),
                      !.obs.failures[cur] = @ + 1,
                      !.run.currentProfileIndex = nextIdx,
                      !.obs.retryPending = TRUE],
            [type |-> "retry", attempt |-> s.run.retries + 1, reason |-> reason,
             profileId |-> nextIdx]))

\* isRetriable(reason) && retries < maxRetries
OnRetriable(s, reason) ==
  LET cur == s.run.currentProfileIndex
      nextIdx == nextProfileIndex(cur, config.profiles)
  IN RetryLoop(
       Emit([s EXCEPT !.run.profileStates[cur] = markProfileFailed(@, s.now),
                      !.obs.failures[cur] = @ + 1,
                      !.run.currentProfileIndex = nextIdx,
                      !.run.retries = @ + 1,
                      !.obs.retryPending = TRUE],
            [type |-> "retry", attempt |-> s.run.retries + 1, reason |-> reason,
             profileId |-> nextIdx]))

\* mutant: a retriable failure is retried whatever the budget
OnCallFailure_AlwaysRetry(s, reason) ==
  IF reason = "context_overflow" THEN OnContextOverflow(s)
  ELSE IF isRetriable(reason) THEN OnRetriable(s, reason)
  ELSE Throw(s, reason)

\* mutant: every failure but an overflow is retried while budget remains
OnCallFailure_RetryAll(s, reason) ==
  IF reason = "context_overflow" THEN OnContextOverflow(s)
  ELSE IF s.run.retries < config.maxRetries THEN OnRetriable(s, reason)
  ELSE Throw(s, reason)

\* the catch block of the provider call
OnCallFailure(s, reason) ==
  IF reason = "context_overflow" THEN OnContextOverflow(s)
  ELSE IF isRetriable(reason) /\ s.run.retries < config.maxRetries
  THEN OnRetriable(s, reason)
  ELSE Throw(s, reason)

\* what the provider call, having completed, is recorded as
Observed(s, outcome) ==
  [s EXCEPT !.obs.calls = Append(@, [iteration |-> s.run.iterations,
                                     profile |-> s.run.currentProfileIndex,
                                     retries |-> s.run.retries,
                                     at |-> s.now,
                                     outcome |-> outcome])]

\* mutant: the user message is written to the transcript as soon as it is built
Setup_PersistsUser(s, userTs) ==
  LET history == repairOrphanedToolCalls(transcriptToMessages(s.transcript))
      messages == Append(history, UserMessage(TXT_USER, userTs))
  IN [s EXCEPT !.run.messages = messages,
               !.run.historyLength = Len(messages),
               !.run.profileStates = createProfileStates(config.profiles),
               !.run.currentProfileIndex = 0,
               !.obs.failures = [i \in 0..(config.profiles - 1) |-> 0],
               !.obs.transcript0 = s.transcript,
               !.transcript = appendMessages(@, messagesToTranscript(
                                                  <<UserMessage(TXT_USER, userTs)>>))]

\* the setup of runAgent up to the iteration loop
Setup(s, userTs) ==
  LET history == repairOrphanedToolCalls(transcriptToMessages(s.transcript))
      messages == Append(history, UserMessage(TXT_USER, userTs))
  IN [s EXCEPT !.run.messages = messages,
               !.run.historyLength = Len(messages),
               !.run.profileStates = createProfileStates(config.profiles),
               !.run.currentProfileIndex = 0,
               !.obs.failures = [i \in 0..(config.profiles - 1) |-> 0],
               !.obs.transcript0 = s.transcript]

\* ------------------------------------------------------------------------
\* Inputs of the model
\* ------------------------------------------------------------------------

\* how long a provider call takes before it is rejected, in ms: a timeout is
\* rejected late, every other rejection at once (only the cooldowns depend on the
\* time, and they count from the moment of a rejection: the time that a
\* successful call, a tool or the summariser takes is left out)
Latency(reason) == IF reason = "timeout" THEN 2 * BASE_COOLDOWN_MS ELSE 0
\* what the provider's rejections are classified as
FailureInputs == {"auth", "timeout", "quota", "context_overflow", "unknown"}
\* by how much a timer may fire late, in ms
TimerLate == {0, 1}
\* the tool calls an assistant message of the provider may carry
ResponseCalls ==
  { <<>>,
    <<ToolCall("tc1", "apply_patch")>>,
    <<ToolCall("tc1", "nonexistent_tool"), ToolCall("tc2", "apply_patch")>> }
\* the usage the provider reports with a response: one per kind of response
UsageReported(calls) ==
  IF Len(calls) = 0 THEN Usage(200, 100, 7, 3, 300, Cost(20, 10, 2, 1, 33))
  ELSE IF Len(calls) = 1 THEN Usage(100, 50, 5, 0, 150, Cost(10, 5, 1, 0, 16))
  ELSE Usage(400, 30, 0, 9, 430, Cost(40, 3, 0, 4, 47))
\* the events of the provider's stream for a response with text token txt
StreamOf(txt) == <<[kind |-> "text_delta", of |-> txt], [kind |-> "done", of |-> txt]>>
\* the length of the text a tool returns, in characters
ToolOutputLens == {10, 60000}

\* transcript lines of earlier turns
HUser(k) == TranscriptMessage("user", 100 + k, 1, 0, "", <<>>, "", FALSE)
HText(k) == TranscriptMessage("assistant", 100 + k, 1, 0, "", <<>>, "", FALSE)
HCall(k) ==
  TranscriptMessage("assistant", 100 + k, 1, 0, "", <<ToolCall("tc1", "apply_patch")>>,
                    "", FALSE)
HTool(k) ==
  TranscriptMessage("tool", 100 + k, 30000, 0, "tc1", <<>>, "apply_patch", FALSE)

\* a turn with one tool call, answered, and no final text
HTurn(k) == <<HUser(k), HCall(k + 1), HTool(k + 2)>>

Histories ==
  { <<>>,
    \* an interrupted turn: the tool call of the first assistant has no result
    <<HUser(1), HCall(2), HText(3)>>,
    \* a long history, with an interrupted turn among its recent messages
    HTurn(1) \o HTurn(4) \o <<HUser(7), HCall(8), HText(9)>> \o <<HUser(10), HText(11)>> }

Configs ==
  [profiles : 1..MaxProfiles, maxRetries : 0..MaxRetriesCfg,
   maxIterations : 1..MaxIterationsCfg]

\* ------------------------------------------------------------------------
\* Init and the actions
\* ------------------------------------------------------------------------

Init ==
  /\ config \in Configs
  /\ transcript \in Histories
  /\ aborted \in BOOLEAN
  /\ now = 0
  /\ pc = "idle"
  /\ run = InitialLocals
  /\ events = <<>>
  /\ obs = InitialObs
  /\ LibIdle

Awaits == {"call", "summarize", "tool_exec", "sleep"}

\* time passes while the run is suspended
After(d) == [Cur EXCEPT !.now = @ + d]

\* runAgent is called
StartRun ==
  /\ pc = "idle"
  /\ Commit(IterationLoop(Setup(Cur, now)))

\* the caller aborts the signal while the run is suspended
Abort ==
  /\ pc \in Awaits
  /\ ~aborted
  /\ aborted' = TRUE
  /\ UNCHANGED <<config, transcript, now, pc, run, events, obs>>
  /\ UNCHANGED libVars

\* the provider call resolves with an assistant message
CallSucceeds ==
  /\ pc = "call"
  /\ \E calls \in ResponseCalls :
       LET s0 == [Cur EXCEPT !.obs.nextTxt = @ + 1]
           msg == AssistantMessage(obs.nextTxt, calls, s0.now)
       IN Commit(OnCallSuccess(Observed(s0, "ok"), msg, UsageReported(calls),
                               StreamOf(obs.nextTxt)))

\* the provider call rejects
CallFails ==
  /\ pc = "call"
  /\ Cardinality({i \in 1..Len(obs.calls) : obs.calls[i].outcome # "ok"}) < MaxFailures
  /\ \E reason \in FailureInputs :
       Commit(OnCallFailure(Observed(After(Latency(reason)), reason), reason))

\* the summariser call of compactMessages resolves
SummarizeReturns ==
  /\ pc = "summarize"
  /\ Commit(AfterRecovery([Cur EXCEPT !.run.messages = compactMessages(@, now)],
                           Len(run.messages)))

\* the summariser call rejects: the error leaves the catch block uncaught
SummarizeFails ==
  /\ pc = "summarize"
  /\ Commit(Throw(Cur, "summarize_failed"))

\* tool.execute resolves
ToolReturns ==
  /\ pc = "tool_exec"
  /\ \E len \in ToolOutputLens :
       LET s0 == [Cur EXCEPT !.obs.nextTxt = @ + 1]
           tc == run.toolCalls[run.toolIdx]
       IN Commit(ToolLoop(PushToolResult(s0,
            ToolResultMessage(tc.id, tc.name, obs.nextTxt,
                              truncateToolResult(len, MaxToolResultChars), FALSE,
                              s0.now))))

\* mutant: the tool's error leaves the run
ToolRaises_Propagates ==
  /\ pc = "tool_exec"
  /\ Commit(Throw(Cur, "tool_error"))

\* tool.execute rejects
ToolRaises ==
  /\ pc = "tool_exec"
  /\ LET s0 == Cur
         tc == run.toolCalls[run.toolIdx]
     IN Commit(ToolLoop(PushToolResult(s0,
            ToolResultMessage(tc.id, tc.name, TXT_TOOL_ERROR, 1, TRUE, s0.now))))

\* mutant: the wait is not counted against the retry budget
SleepWakes_Uncounted ==
  /\ pc = "sleep"
  /\ ~aborted
  /\ \E late \in TimerLate : Commit(RetryLoop(After(run.sleepMs + late)))

\* the cooldown sleep's timer fires
SleepWakes ==
  /\ pc = "sleep"
  /\ ~aborted
  /\ \E late \in TimerLate :
       Commit(RetryLoop([After(run.sleepMs + late) EXCEPT !.run.retries = @ + 1]))

\* the signal's abort event rejects the cooldown sleep
SleepAborted ==
  /\ pc = "sleep"
  /\ aborted
  /\ Commit(Throw(Cur, "cancelled"))

Next ==
  \/ StartRun
  \/ Abort
  \/ CallSucceeds
  \/ CallFails
  \/ SummarizeReturns
  \/ SummarizeFails
  \/ ToolReturns
  \/ ToolRaises
  \/ SleepWakes
  \/ SleepAborted

Spec == Init /\ [][Next]_vars

\* ------------------------------------------------------------------------
\* The profile chain taken alone: the calls the loop makes on the profile
\* states (markProfileFailed on a rejection, markProfileGood on a success), in
\* any order and number, as time passes
\* ------------------------------------------------------------------------

InitProfiles ==
  /\ config \in [profiles : 1..MaxProfiles, maxRetries : {0}, maxIterations : {1}]
  /\ transcript = <<>>
  /\ aborted = FALSE
  /\ now = 0
  /\ pc = "call"
  /\ run = [InitialLocals EXCEPT !.profileStates = createProfileStates(config.profiles)]
  /\ events = <<>>
  /\ obs = [InitialObs EXCEPT !.failures = [i \in 0..(config.profiles - 1) |-> 0]]
  /\ LibIdle

\* markProfileFailed(profileStates[i]) after a call that took d ms
ProfileFails ==
  \E i \in 0..(config.profiles - 1), d \in {0, BASE_COOLDOWN_MS} :
    /\ obs.failures[i] < MaxMarks
    /\ now + d <= MaxMarks * BASE_COOLDOWN_MS
    /\ now' = now + d
    /\ run' = [run EXCEPT !.profileStates[i] = markProfileFailed(@, now')]
    /\ obs' = [obs EXCEPT !.failures[i] = @ + 1]
    /\ UNCHANGED <<config, transcript, aborted, pc, events>>
    /\ UNCHANGED libVars

\* markProfileGood(profileStates[i])
ProfileSucceeds ==
  \E i \in 0..(config.profiles - 1) :
    /\ run' = [run EXCEPT !.profileStates[i] = markProfileGood(@)]
    /\ obs' = [obs EXCEPT !.failures[i] = 0]
    /\ UNCHANGED <<config, transcript, aborted, now, pc, events>>
    /\ UNCHANGED libVars

NextProfiles == ProfileFails \/ ProfileSucceeds

SpecProfiles == InitProfiles /\ [][NextProfiles]_vars

\* ------------------------------------------------------------------------
\* The converter and the repair taken alone: pure functions of a message
\* list, applied to every list of up to MaxLen messages over MessageKinds
\* ------------------------------------------------------------------------

\* the messages the lists are made of; the message at position i has
\* timestamp i.  Tool-call identifiers are not assumed unique ("Aaa").
MessageKinds == {"U", "Uparts", "A", "Aa", "Aab", "Aaa", "Ta", "Tb", "Ta2"}

MessageOf(kind, ts) ==
  CASE kind = "U" -> UserMessage(TXT_USER, ts)
    [] kind = "Uparts" ->
         [UserMessage(TXT_USER, ts) EXCEPT !.blocks = <<"text", "image">>]
    [] kind = "A" -> AssistantMessage(TXT_USER, <<>>, ts)
    [] kind = "Aa" -> AssistantMessage(TXT_USER, <<ToolCall("a", "read")>>, ts)
    [] kind = "Aab" ->
         AssistantMessage(TXT_USER, <<ToolCall("a", "read"), ToolCall("b", "exec")>>, ts)
    [] kind = "Aaa" ->
         AssistantMessage(TXT_USER, <<ToolCall("a", "read"), ToolCall("a", "exec")>>, ts)
    [] kind = "Ta" -> ToolResultMessage("a", "read", TXT_USER, 1, FALSE, ts)
    [] kind = "Tb" -> ToolResultMessage("b", "exec", TXT_USER, 1, TRUE, ts)
    [] kind = "Ta2" ->
         [ToolResultMessage("a", "read", TXT_USER, 1, FALSE, ts)
            EXCEPT !.blocks = <<"text", "text">>]

MessageLists ==
  UNION {{[i \in 1..n |-> MessageOf(kinds[i], i)] : kinds \in [1..n -> MessageKinds]} :
           n \in 0..MaxLen}

\* no run is going on
RunIdle ==
  /\ config \in [profiles : {1}, maxRetries : {0}, maxIterations : {1}]
  /\ transcript = <<>>
  /\ aborted = FALSE
  /\ now = 0
  /\ pc = "idle"
  /\ run = InitialLocals
  /\ events = <<>>
  /\ obs = InitialObs

InitConverter ==
  /\ RunIdle
  /\ KeyIdle
  /\ ConcIdle
  /\ input \in MessageLists
  /\ output = <<>>
  /\ op = "none"
  /\ LogIdle
  /\ StoreIdle

\* repairOrphanedToolCalls(L)
Repair ==
  /\ op = "none"
  /\ output' = repairOrphanedToolCalls(input)
  /\ op' = "repair"
  /\ UNCHANGED <<input, runVars, logVars, storeVars, keyVars, concVars>>

\* repairOrphanedToolCalls of what the repair returned
RepairAgain ==
  /\ op = "repair"
  /\ input' = output
  /\ output' = repairOrphanedToolCalls(output)
  /\ op' = "repair_again"
  /\ UNCHANGED <<runVars, logVars, storeVars, keyVars, concVars>>

\* transcriptToMessages(messagesToTranscript(L))
RoundTrip ==
  /\ op = "none"
  /\ output' = transcriptToMessages(messagesToTranscript(input))
  /\ op' = "round_trip"
  /\ UNCHANGED <<input, runVars, logVars, storeVars, keyVars, concVars>>

NextConverter == Repair \/ RepairAgain \/ RoundTrip

SpecConverter == InitConverter /\ [][NextConverter]_vars

\* ------------------------------------------------------------------------
\* Session keys (session-key.ts).  A string is the sequence of its
\* characters, each a one-character string.
\* ------------------------------------------------------------------------

\* the characters \s matches, of those the inputs are made of
WhitespaceChars == {" "}

LowerLetters ==
  {"a", "b", "c", "d", "e", "f", "g", "h", "i", "j", "k", "l", "m", "n", "o", "p",
   "q", "r", "s", "t", "u", "v", "w", "x", "y", "z"}
\* the upper-case letters the inputs are made of, and their lower case
UpperLetters == <<"B", "T">>
LowerOfUpper == <<"b", "t">>
DigitChars == {"0", "1", "2", "3", "4", "5", "6", "7", "8", "9"}
KeptPunctuation == {"_", ".", "@", "+", ":", "-"}

\* /^[a-zA-Z0-9_.@+:-]+$/ : the characters it admits
SAFE_SEGMENT_RE ==
  LowerLetters \cup Range(UpperLetters) \cup DigitChars \cup KeptPunctuation

\* /[^a-z0-9_.@+:-]/g : the characters it leaves in place
CleanedChars == LowerLetters \cup DigitChars \cup KeptPunctuation

MAX_SEGMENT_LEN == 128

\* String.prototype.trim
RECURSIVE trim(_)
trim(str) ==
  IF str = <<>> THEN <<>>
  ELSE IF Head(str) \in WhitespaceChars THEN trim(Tail(str))
  ELSE IF str[Len(str)] \in WhitespaceChars THEN trim(SubSeq(str, 1, Len(str) - 1))
  ELSE str

\* String.prototype.toLowerCase
toLowerCase(str) ==
  [i \in 1..Len(str) |->
     IF \E k \in 1..Len(UpperLetters) : UpperLetters[k] = str[i]
     THEN LowerOfUpper[CHOOSE k \in 1..Len(UpperLetters) : UpperLetters[k] = str[i]]
     ELSE str[i]]

\* replace(/\s+/g, "_"): every run of whitespace becomes one underscore
RECURSIVE CollapseWhitespace(_, _)
CollapseWhitespace(str, inRun) ==
  IF str = <<>> THEN <<>>
  ELSE IF Head(str) \in WhitespaceChars
  THEN (IF inRun THEN <<>> ELSE <<"_">>) \o CollapseWhitespace(Tail(str), TRUE)
  ELSE <<Head(str)>> \o CollapseWhitespace(Tail(str), FALSE)

\* slice(0, MAX_SEGMENT_LEN)
Clamp(str) == SubSeq(str, 1, Min(Len(str), MAX_SEGMENT_LEN))

normalizeSegment(raw, fallback) ==
  LET trimmed == trim(raw)
      lower == CollapseWhitespace(toLowerCase(trimmed), FALSE)
      cleaned == SelectSeq(lower, LAMBDA c : c \in CleanedChars)
  IN IF trimmed = <<>> THEN fallback
     ELSE IF \A i \in 1..Len(lower) : lower[i] \in SAFE_SEGMENT_RE THEN Clamp(lower)
     ELSE Clamp(IF cleaned = <<>> THEN fallback ELSE cleaned)

\* a parameter that is not given
undefined == <<"undefined">>

\* the string literals of the key format
StrMain == <<"m", "a", "i", "n">>
StrDefault == <<"d", "e", "f", "a", "u", "l", "t">>
StrUnknown == <<"u", "n", "k", "n", "o", "w", "n">>
StrAgent == <<"a", "g", "e", "n", "t", ":">>
StrChannel == <<":", "c", "h", "a", "n", "n", "e", "l", ":">>
StrAccount == <<":", "a", "c", "c", "o", "u", "n", "t", ":">>
StrPeer == <<":", "p", "e", "e", "r", ":">>
\* type PeerKind, in the order of the parser's alternation
PeerKinds ==
  <<<<"d", "i", "r", "e", "c", "t">>, <<"g", "r", "o", "u", "p">>,
    <<"c", "h", "a", "n", "n", "e", "l">>>>

\* the fields buildSessionKey puts into the key
NormalizedFields(params) ==
  [agentId |-> normalizeSegment(IF params.agentId = undefined THEN StrMain
                                ELSE params.agentId, StrMain),
   channel |-> normalizeSegment(params.channel, StrUnknown),
   accountId |-> normalizeSegment(IF params.accountId = undefined THEN StrDefault
                                  ELSE params.accountId, StrDefault),
   peerKind |-> params.peerKind,
   peerId |-> normalizeSegment(params.peerId, StrUnknown)]

buildSessionKey(params) ==
  LET f == NormalizedFields(params)
  IN StrAgent \o f.agentId \o StrChannel \o f.channel \o StrAccount \o f.accountId
       \o StrPeer \o f.peerKind \o <<":">> \o f.peerId

\* the literal lit stands in str at position i
LiteralAt(str, i, lit) ==
  /\ i + Len(lit) - 1 <= Len(str)
  /\ SubSeq(str, i, i + Len(lit) - 1) = lit

\* where [^:]+ stops when it starts at i: the first colon from i on, or the end
RECURSIVE ColonFrom(_, _)
ColonFrom(str, i) ==
  IF i > Len(str) \/ str[i] = ":" THEN i ELSE ColonFrom(str, i + 1)

\* parseSessionKey returns null
null == [matched |-> FALSE]

\* key.match(/^agent:([^:]+):channel:([^:]+):account:([^:]+)
\*            :peer:(direct|group|channel):(.+)$/)
\* A group [^:]+ takes no colon and the literal after it starts with one, so
\* the group ends at the first colon; no peer kind is a prefix of another.
parseSessionKey(key) ==
  LET a0 == 1 + Len(StrAgent)
      a1 == ColonFrom(key, a0)
      c0 == a1 + Len(StrChannel)
      c1 == ColonFrom(key, c0)
      n0 == c1 + Len(StrAccount)
      n1 == ColonFrom(key, n0)
      k0 == n1 + Len(StrPeer)
      kinds == SelectSeq(PeerKinds, LAMBDA kind : LiteralAt(key, k0, kind \o <<":">>))
      p0 == k0 + Len(kinds[1]) + 1
  IN IF /\ LiteralAt(key, 1, StrAgent)
        /\ a1 > a0
        /\ LiteralAt(key, a1, StrChannel)
        /\ c1 > c0
        /\ LiteralAt(key, c1, StrAccount)
        /\ n1 > n0
        /\ LiteralAt(key, n1, StrPeer)
        /\ kinds # <<>>
        /\ p0 <= Len(key)
     THEN [matched |-> TRUE,
           agentId |-> SubSeq(key, a0, a1 - 1),
           channel |-> SubSeq(key, c0, c1 - 1),
           accountId |-> SubSeq(key, n0, n1 - 1),
           peerKind |-> kinds[1],
           peerId |-> SubSeq(key, p0, Len(key))]
     ELSE null

\* key.replace(/:/g, "__")
RECURSIVE sessionKeyToSlug(_)
sessionKeyToSlug(key) ==
  IF key = <<>> THEN <<>>
  ELSE (IF Head(key) = ":" THEN <<"_", "_">> ELSE <<Head(key)>>)
         \o sessionKeyToSlug(Tail(key))

\* resolveTranscriptPath: the file name in the sessions directory
resolveTranscriptPath(sessionKey) == sessionKeyToSlug(sessionKey) \o <<".jsonl">>

\* the raw values the callers give for a segment
RawPeerIds ==
  { <<"u", "_", "1">>,
    <<"a", ":", "b">>,
    <<"a", "_", "_", "b">>,
    <<" ", "T", " ", " ", "g", " ">>,
    <<"x", ".", "y", "@", "z", "+", "w", "-", "v">>,
    <<"!">> }
RawChannels == { <<"t", "g">>, <<"t", ":", "g">> }
RawAgentIds == { undefined, <<"B", "o", "t">> }
RawAccountIds == { undefined, <<"p", "!", "q">> }

SessionKeyParams ==
  [agentId : RawAgentIds, channel : RawChannels, accountId : RawAccountIds,
   peerKind : Range(PeerKinds), peerId : RawPeerIds]

\* two session keys given as they are, not built; their slugs differ
K1 == <<"k", "1">>
K2 == <<"k", "2">>
\* the empty string, where a line or an entry names no key
NoKey == <<>>

\* the key of a direct peer on one channel, other parameters left to their
\* defaults
KeyOfPeer(peerId) ==
  buildSessionKey([agentId |-> undefined, channel |-> <<"t", "g">>,
                   accountId |-> undefined, peerKind |-> PeerKinds[1],
                   peerId |-> peerId])

\* the session keys of the runs that share a process
RunKeyOrder ==
  <<KeyOfPeer(<<"u", "_", "1">>), KeyOfPeer(<<"a", ":", "b">>),
    KeyOfPeer(<<"a", "_", "_", "b">>)>>

InitKeys ==
  /\ RunIdle
  /\ ConvIdle
  /\ LogIdle
  /\ StoreIdle
  /\ ConcIdle
  /\ keyParams = <<>>
  /\ built = <<>>
  /\ parsedKeys = <<>>
  /\ slugs = <<>>

KeysFrame == UNCHANGED <<runVars, convVars, logVars, storeVars, concVars>>

\* buildSessionKey(params)
BuildKey ==
  /\ Len(built) < MaxKeys
  /\ \E params \in SessionKeyParams :
       /\ keyParams' = Append(keyParams, params)
       /\ built' = Append(built, buildSessionKey(params))
  /\ UNCHANGED <<parsedKeys, slugs>>
  /\ KeysFrame

\* parseSessionKey of the next key built
ParseKey ==
  /\ Len(parsedKeys) < Len(built)
  /\ parsedKeys' = Append(parsedKeys, parseSessionKey(built[Len(parsedKeys) + 1]))
  /\ UNCHANGED <<keyParams, built, slugs>>
  /\ KeysFrame

\* sessionKeyToSlug of the next key built
SlugKey ==
  /\ Len(slugs) < Len(built)
  /\ slugs' = Append(slugs, sessionKeyToSlug(built[Len(slugs) + 1]))
  /\ UNCHANGED <<keyParams, built, parsedKeys>>
  /\ KeysFrame

NextKeys == BuildKey \/ ParseKey \/ SlugKey

SpecKeys == InitKeys /\ [][NextKeys]_vars

\* ------------------------------------------------------------------------
\* The transcript log (transcript.ts): one JSONL file per session
\* ------------------------------------------------------------------------

\* A line of a transcript file, as far as the readers tell lines apart:
\* shape is "blank" (empty after trim), "garbage" (JSON.parse throws) or
\* "json"; a parsed line has its type, its role ("" when it has no string
\* role), its content (None when it has no string content) and its ts (None
\* when it has no number ts).  toolCallId and meta are copied through
\* unchanged by writers and readers alike and are left out.
Line(shape, type, sessionKey, role, txt, ts) ==
  [shape |-> shape, type |-> type, sessionKey |-> sessionKey, role |-> role,
   txt |-> txt, ts |-> ts]

\* JSON.stringify({type: "session", sessionKey, createdAt})
HeaderLine(sessionKey, createdAt) ==
  Line("json", "session", sessionKey, "", None, createdAt)

\* JSON.stringify({role, content, ts: message.ts ?? Date.now(), ...})
EntryLine(message, t) ==
  Line("json", "", NoKey, message.role, message.txt,
       IF message.ts = None THEN t ELSE message.ts)

\* a file that does not exist
NoFile == [exists |-> FALSE, lines |-> <<>>]

\* fs.writeFileSync of a new file, fs.appendFileSync of an existing one: the
\* lines of one write reach the file together
Write(file, lines) == [exists |-> TRUE, lines |-> file.lines \o lines]

\* mutant: the header is written whether or not the file exists
ensureTranscriptFile_Always(file, sessionKey, t) == <<<<HeaderLine(sessionKey, t)>>>>

\* the filesystem writes ensureTranscriptFile makes: none if the file exists,
\* else one write of the header line
ensureTranscriptFile(file, sessionKey, t) ==
  IF file.exists THEN <<>> ELSE <<<<HeaderLine(sessionKey, t)>>>>

\* mutant: one appendFileSync per record
BatchWrites_PerRecord(entries) == [i \in 1..Len(entries) |-> <<entries[i]>>]

\* the filesystem writes appendMessages makes for its records: one
\* appendFileSync of lines.join("\n") + "\n"
BatchWrites(entries) == <<entries>>

\* loadTranscript's loop over the lines
RECURSIVE LoadLines(_)
LoadLines(lines) ==
  IF lines = <<>> THEN <<>>
  ELSE LET l == Head(lines)
       IN (IF /\ l.shape = "json"
              /\ l.type # "session"
              /\ l.role # ""
              /\ l.txt # None
           THEN <<[role |-> l.role, txt |-> l.txt,
                   ts |-> IF l.ts = None THEN 0 ELSE l.ts]>>
           ELSE <<>>)
          \o LoadLines(Tail(lines))

loadTranscript(file) == IF ~file.exists THEN <<>> ELSE LoadLines(file.lines)

\* countMessages' loop over the lines
RECURSIVE CountLines(_)
CountLines(lines) ==
  IF lines = <<>> THEN 0
  ELSE LET l == Head(lines)
       IN (IF l.shape = "json" /\ l.type # "session" /\ l.role # "" THEN 1 ELSE 0)
          + CountLines(Tail(lines))

countMessages(file) == IF ~file.exists THEN 0 ELSE CountLines(file.lines)

\* the session keys of the model; their slugs, and so their paths, differ
SessionKeys == {K1, K2}

\* no call is between two writes
NoWrite == [key |-> NoKey, writes |-> <<>>]

InitTranscript ==
  /\ RunIdle
  /\ KeyIdle
  /\ ConcIdle
  /\ input = <<>>
  /\ output = <<>>
  /\ op = "none"
  /\ files = [k \in SessionKeys |-> NoFile]
  /\ writing = NoWrite
  /\ appends = <<>>
  /\ StoreIdle

\* a call makes its first filesystem write and stays with the rest
StartWrites(key, writes, call) ==
  /\ files' = [files EXCEPT ![key] = Write(@, Head(writes))]
  /\ writing' = IF Len(writes) > 1 THEN [key |-> key, writes |-> Tail(writes)]
                 ELSE NoWrite
  /\ appends' = Append(appends, call)

\* appendMessage(key, message), up to and with its first filesystem write;
\* the message comes with or without its ts
AppendMessage ==
  /\ writing = NoWrite
  /\ Len(appends) < MaxAppends
  /\ \E key \in SessionKeys, withTs \in BOOLEAN :
       LET id == Len(appends) + 1
           message == [role |-> "user", txt |-> 10 * id,
                       ts |-> IF withTs THEN id ELSE None]
       IN StartWrites(key,
                      ensureTranscriptFile(files[key], key, now)
                        \o <<<<EntryLine(message, now)>>>>,
                      [key |-> key, batch |-> FALSE, txts |-> <<message.txt>>])
  /\ UNCHANGED <<runVars, convVars, storeVars, keyVars, concVars>>

\* appendMessages(key, messages), up to and with its first filesystem write;
\* an empty batch returns at once
AppendMessages ==
  /\ writing = NoWrite
  /\ Len(appends) < MaxAppends
  /\ \E key \in SessionKeys, n \in 0..MaxBatch :
       LET id == Len(appends) + 1
           messages == [i \in 1..n |-> [role |-> "assistant", txt |-> 10 * id + i,
                                        ts |-> id]]
           entries == [i \in 1..n |-> EntryLine(messages[i], now)]
           call == [key |-> key, batch |-> TRUE,
                    txts |-> [i \in 1..n |-> messages[i].txt]]
       IN IF n = 0
          THEN /\ appends' = Append(appends, call)
               /\ UNCHANGED <<files, writing>>
          ELSE StartWrites(key,
                           ensureTranscriptFile(files[key], key, now)
                             \o BatchWrites(entries),
                           call)
  /\ UNCHANGED <<runVars, convVars, storeVars, keyVars, concVars>>

\* the call goes on to its next filesystem write
NextWrite ==
  /\ writing # NoWrite
  /\ files' = [files EXCEPT ![writing.key] = Write(@, Head(writing.writes))]
  /\ writing' = IF Len(writing.writes) > 1
                 THEN [writing EXCEPT !.writes = Tail(@)]
                 ELSE NoWrite
  /\ UNCHANGED <<runVars, convVars, storeVars, keyVars, concVars, appends>>

\* the process is interrupted between two filesystem writes; what it had
\* still to write is lost, and later calls work on the files as they are
Interrupted ==
  /\ writing # NoWrite
  /\ writing' = NoWrite
  /\ UNCHANGED <<runVars, convVars, storeVars, keyVars, concVars, files, appends>>

NextTranscript == AppendMessage \/ AppendMessages \/ NextWrite \/ Interrupted

SpecTranscript == InitTranscript /\ [][NextTranscript]_vars

\* ------------------------------------------------------------------------
\* The readers of the transcript log taken alone, on a file with a header and
\* up to MaxLines lines of any kind after it
\* ------------------------------------------------------------------------

\* the lines a file is made of: a message record, an empty line, a line that
\* is no JSON, a JSON record without a role, a JSON record with a role and
\* without a content
LineKinds == {"message", "blank", "garbage", "no_role", "no_content"}

\* the line of kind kind at position i; a message carries its position
LineOf(kind, i) ==
  CASE kind = "message" -> Line("json", "", NoKey, "user", 10 + i, i)
    [] kind = "blank" -> Line("blank", "", NoKey, "", None, None)
    [] kind = "garbage" -> Line("garbage", "", NoKey, "", None, None)
    [] kind = "no_role" -> Line("json", "", NoKey, "", 10 + i, i)
    [] kind = "no_content" -> Line("json", "", NoKey, "user", None, i)

FilesRead ==
  {NoFile} \cup
  UNION {{[exists |-> TRUE,
           lines |-> <<HeaderLine(K1, 0)>> \o [i \in 1..n |-> LineOf(kinds[i], i)]] :
            kinds \in [1..n -> LineKinds]} : n \in 0..MaxLines}

InitLoad ==
  /\ RunIdle
  /\ KeyIdle
  /\ ConcIdle
  /\ input = <<>>
  /\ output = <<>>
  /\ op = "none"
  /\ \E file \in FilesRead : files = [k \in SessionKeys |-> IF k = K1 THEN file ELSE NoFile]
  /\ writing = NoWrite
  /\ appends = <<>>
  /\ StoreIdle

\* loadTranscript(key)
LoadTranscript ==
  /\ op = "none"
  /\ \E key \in SessionKeys :
       /\ input' = key
       /\ output' = loadTranscript(files[key])
  /\ op' = "load"
  /\ UNCHANGED <<runVars, logVars, storeVars, keyVars, concVars>>

\* countMessages(key)
CountMessages ==
  /\ op = "none"
  /\ \E key \in SessionKeys :
       /\ input' = key
       /\ output' = countMessages(files[key])
  /\ op' = "count"
  /\ UNCHANGED <<runVars, logVars, storeVars, keyVars, concVars>>

NextLoad == LoadTranscript \/ CountMessages

SpecLoad == InitLoad /\ [][NextLoad]_vars

\* ------------------------------------------------------------------------
\* The session metadata index (store.ts): sessions.json, its cache, and the
\* objects handed to callers.  Objects have identity: a map object and an
\* entry object live in the heap under a reference, and two holders of one
\* reference see each other's writes.
\* ------------------------------------------------------------------------

\* null
NoRef == 0

\* the fields of a SessionEntry the model follows; sessionFile is named by
\* the key its slug is made from; model is None when the entry has none
SessionEntry(sessionId, updatedAt, sessionFile, model) ==
  [sessionId |-> sessionId, updatedAt |-> updatedAt, sessionFile |-> sessionFile,
   model |-> model, totalTokens |-> None]

\* Partial<Omit<SessionEntry, "sessionId" | "sessionFile">>: a field is None
\* when the patch does not have it
Patches == [updatedAt : {None, 0}, model : {None, 7}, totalTokens : {None}]

\* the order in which the keys of an object are visited: one order for
\* each set of keys
KeyOrder(keys) ==
  CHOOSE ks \in [1..Cardinality(keys) -> keys] :
    \A i, j \in 1..Cardinality(keys) : i # j => ks[i] # ks[j]

\* the map an object stands for: session key -> entry, as a value
ValueOf(h, ref) == [k \in DOMAIN h.maps[ref] |-> h.entries[h.maps[ref][k]]]

\* new objects for a map value: JSON.parse of the file; its reference is the
\* last of the maps
Alloc(h, value) ==
  LET ks == KeyOrder(DOMAIN value)
      at(k) == CHOOSE i \in 1..Len(ks) : ks[i] = k
  IN [maps |-> Append(h.maps, [k \in DOMAIN value |-> Len(h.entries) + at(k)]),
      entries |-> h.entries \o [i \in 1..Len(ks) |-> value[ks[i]]]]

\* mutant: a copy of the map that shares the entries
structuredClone_Shallow(h, ref) == [h EXCEPT !.maps = Append(@, h.maps[ref])]

\* structuredClone(store): new objects all the way down
structuredClone(h, ref) == Alloc(h, ValueOf(h, ref))

\* the state the operations of the index work on, with what they return:
\* ret (a map) and result (an entry)
CurStore ==
  [heap |-> heap, storeFile |-> storeFile, cache |-> cache, ret |-> NoRef,
   result |-> NoRef]

loadSessionStore(st, noCache) ==
  IF ~st.storeFile.exists
  THEN LET h == Alloc(st.heap, <<>>)
       IN [st EXCEPT !.heap = h, !.ret = Len(h.maps)]
  ELSE IF ~noCache /\ st.cache.store # NoRef /\ st.storeFile.mtime = st.cache.mtime
  THEN LET h == structuredClone(st.heap, st.cache.store)
       IN [st EXCEPT !.heap = h, !.ret = Len(h.maps)]
  ELSE LET h1 == Alloc(st.heap, st.storeFile.value)
           parsed == Len(h1.maps)
           h2 == structuredClone(h1, parsed)
       IN [st EXCEPT !.heap = h2,
                     !.cache = [store |-> parsed, mtime |-> st.storeFile.mtime],
                     !.ret = Len(h2.maps)]

saveSessionStore(st, store, t) ==
  LET h == structuredClone(st.heap, store)
  IN [st EXCEPT !.storeFile = [exists |-> TRUE, value |-> ValueOf(st.heap, store),
                               mtime |-> t],
                !.heap = h,
                !.cache = [store |-> Len(h.maps), mtime |-> t]]

\* mutant: the entry is made anew on every update
MergeEntry_Renewed(existing, patch, t) ==
  SessionEntry(existing.sessionId + 1, t, existing.sessionFile,
               IF patch.model # None THEN patch.model ELSE existing.model)

\* Object.assign(existing, patch, { updatedAt: Date.now() })
MergeEntry(existing, patch, t) ==
  [existing EXCEPT !.model = IF patch.model # None THEN patch.model ELSE @,
                   !.totalTokens = IF patch.totalTokens # None THEN patch.totalTokens
                                   ELSE @,
                   !.updatedAt = t]

\* { sessionId, updatedAt: Date.now(), sessionFile: `${slug}.jsonl`, ...patch }
CreateEntry(sessionId, key, patch, t) ==
  [SessionEntry(sessionId,
                IF patch.updatedAt # None THEN patch.updatedAt ELSE t,
                key,
                patch.model)
     EXCEPT !.totalTokens = patch.totalTokens]

\* updateSessionStore(mutator) with the mutator of updateSessionMeta
updateSessionMeta(st, key, patch, t, sessionId) ==
  LET s1 == loadSessionStore(st, TRUE)
      store == s1.ret
      m == s1.heap.maps[store]
      fresh == Len(s1.heap.entries) + 1
      s2 == IF key \in DOMAIN m
            THEN [s1 EXCEPT !.heap.entries[m[key]] = MergeEntry(@, patch, t),
                            !.result = m[key]]
            ELSE [s1 EXCEPT !.heap.entries =
                              Append(@, CreateEntry(sessionId, key, patch, t)),
                            !.heap.maps[store] =
                              [k \in DOMAIN m \cup {key} |->
                                 IF k = key THEN fresh ELSE m[k]],
                            !.result = fresh]
  IN saveSessionStore(s2, store, t)

\* the index before its first use: no file, or the file of an earlier
\* process with one entry
InitStore ==
  /\ config \in [profiles : {1}, maxRetries : {0}, maxIterations : {1}]
  /\ transcript = <<>>
  /\ aborted = FALSE
  /\ now = 1
  /\ pc = "idle"
  /\ run = InitialLocals
  /\ events = <<>>
  /\ obs = InitialObs
  /\ ConvIdle
  /\ LogIdle
  /\ KeyIdle
  /\ ConcIdle
  /\ heap = [maps |-> <<>>, entries |-> <<>>]
  /\ storeFile \in {[exists |-> FALSE, value |-> <<>>, mtime |-> 0],
                    [exists |-> TRUE, mtime |-> 0,
                     value |-> [k \in {K1} |-> SessionEntry(100, 0, K1, None)]]}
  /\ cache = [store |-> NoRef, mtime |-> 0]
  /\ held = [maps |-> <<>>, entries |-> <<>>, saves |-> 0, writes |-> 0]
  /\ upserts = <<>>

\* what the index's actions leave alone
StoreFrame ==
  UNCHANGED <<config, transcript, aborted, pc, run, events, obs, logVars, keyVars,
              concVars>>

CommitStore(st) ==
  /\ heap' = st.heap
  /\ storeFile' = st.storeFile
  /\ cache' = st.cache

\* loadSessionStore({ noCache })
LoadStore ==
  /\ Len(held.maps) < MaxLoads
  /\ \E noCache \in BOOLEAN :
       LET st == loadSessionStore(CurStore, noCache)
       IN /\ CommitStore(st)
          /\ held' = [held EXCEPT !.maps = Append(@, st.ret)]
          /\ input' = noCache
          /\ output' = st.ret
  /\ op' = "load"
  /\ UNCHANGED <<now, upserts>>
  /\ StoreFrame

\* saveSessionStore(M) of a map a caller holds
SaveStore ==
  /\ held.saves < MaxSaves
  /\ \E i \in 1..Len(held.maps) :
       /\ CommitStore(saveSessionStore(CurStore, held.maps[i], now))
       /\ input' = held.maps[i]
  /\ held' = [held EXCEPT !.saves = @ + 1]
  /\ output' = NoRef
  /\ op' = "save"
  /\ UNCHANGED <<now, upserts>>
  /\ StoreFrame

\* updateSessionMeta(key, patch)
UpsertMeta ==
  /\ Len(upserts) < MaxUpserts
  /\ \E key \in SessionKeys, patch \in Patches :
       LET st == updateSessionMeta(CurStore, key, patch, now, Len(upserts) + 1)
       IN /\ CommitStore(st)
          /\ held' = [held EXCEPT !.entries = Append(@, st.result)]
          /\ upserts' = Append(upserts,
                [key |-> key, patch |-> patch, at |-> now,
                 existed |-> storeFile.exists /\ key \in DOMAIN storeFile.value,
                 before |-> IF storeFile.exists /\ key \in DOMAIN storeFile.value
                            THEN storeFile.value[key]
                            ELSE SessionEntry(None, None, NoKey, None),
                 returned |-> st.heap.entries[st.result],
                 stored |-> st.storeFile.value[key]])
          /\ input' = key
          /\ output' = st.result
  /\ op' = "upsert"
  /\ UNCHANGED now
  /\ StoreFrame

\* a caller writes to a map it was handed: it drops a key, or sets the model
\* of an entry
MutateHeldMap ==
  /\ held.writes < MaxWrites
  /\ \E i \in 1..Len(held.maps), key \in SessionKeys, drop \in BOOLEAN :
       LET m == heap.maps[held.maps[i]]
       IN /\ key \in DOMAIN m
          /\ IF drop
             THEN heap' = [heap EXCEPT !.maps[held.maps[i]] =
                                         [k \in DOMAIN m \ {key} |-> m[k]]]
             ELSE /\ heap.entries[m[key]].model # 9
                  /\ heap' = [heap EXCEPT !.entries[m[key]].model = 9]
          /\ input' = held.maps[i]
  /\ held' = [held EXCEPT !.writes = @ + 1]
  /\ output' = NoRef
  /\ op' = "mutate"
  /\ UNCHANGED <<now, storeFile, cache, upserts>>
  /\ StoreFrame

\* a caller writes to an entry updateSessionMeta returned
MutateHeldEntry ==
  /\ held.writes < MaxWrites
  /\ \E i \in 1..Len(held.entries) :
       /\ heap.entries[held.entries[i]].model # 9
       /\ heap' = [heap EXCEPT !.entries[held.entries[i]].model = 9]
       /\ input' = held.entries[i]
  /\ held' = [held EXCEPT !.writes = @ + 1]
  /\ output' = NoRef
  /\ op' = "mutate"
  /\ UNCHANGED <<now, storeFile, cache, upserts>>
  /\ StoreFrame

\* time passes
Tick ==
  /\ now < MaxClock
  /\ now' = now + 1
  /\ UNCHANGED <<convVars, storeVars>>
  /\ StoreFrame

NextStore ==
  LoadStore \/ SaveStore \/ UpsertMeta \/ MutateHeldMap \/ MutateHeldEntry \/ Tick

SpecStore == InitStore /\ [][NextStore]_vars

\* ------------------------------------------------------------------------
\* Several runs in one process: runAgent is async, and the JavaScript of one
\* process runs one piece of synchronous code at a time.  A step of a run is
\* the completion of one of its awaits with the synchronous code up to its
\* next await, as in the run taken alone; the steps of the runs interleave.
\* The runs share the sessions directory: the transcript files and
\* sessions.json with its cache.
\* ------------------------------------------------------------------------

\* config.provider.model of the i-th run
ModelOfRun(i) == 6 + i

\* the i-th run before runAgent is called for it; its provider's text
\* tokens are its own
RunSlot(sessionKey, i) ==
  [sessionKey |-> sessionKey,
   model |-> ModelOfRun(i),
   s |-> [transcript |-> <<>>, aborted |-> FALSE, now |-> 0, pc |-> "idle",
          run |-> InitialLocals, events |-> <<>>,
          obs |-> [InitialObs EXCEPT !.nextTxt = 10 * i]]]

\* the paths of the transcript files of the keys the runs may have
RunPaths == {resolveTranscriptPath(k) : k \in Range(RunKeyOrder)}

InitConcurrent ==
  /\ config = [profiles |-> 1, maxRetries |-> 0, maxIterations |-> MaxIterationsCfg]
  /\ transcript = <<>>
  /\ aborted = FALSE
  /\ now = 0
  /\ pc = "idle"
  /\ run = InitialLocals
  /\ events = <<>>
  /\ obs = InitialObs
  /\ ConvIdle
  /\ LogIdle
  /\ KeyIdle
  /\ heap = [maps |-> <<>>, entries |-> <<>>]
  /\ storeFile = [exists |-> FALSE, value |-> <<>>, mtime |-> 0]
  /\ cache = [store |-> NoRef, mtime |-> 0]
  /\ held = [maps |-> <<>>, entries |-> <<>>, saves |-> 0, writes |-> 0]
  /\ upserts = <<>>
  /\ \E ks \in [1..MaxRuns -> Range(RunKeyOrder)] :
       /\ \A i, j \in 1..MaxRuns : i # j => ks[i] # ks[j]
       /\ procs = [i \in 1..MaxRuns |-> RunSlot(ks[i], i)]
  /\ disk = [p \in RunPaths |-> <<>>]

\* the state the i-th run works on: its own, with the lines of the file at
\* its transcript path
Loaded(i) ==
  [procs[i].s EXCEPT !.transcript = disk[resolveTranscriptPath(procs[i].sessionKey)]]

\* what a step of the i-th run leaves behind: its own state, the file at
\* its transcript path, and, when the step returned the result, the index
\* (updateSessionMeta follows appendMessages in the same synchronous code)
CommitRun(i, s1) ==
  LET sessionKey == procs[i].sessionKey
  IN /\ procs' = [procs EXCEPT ![i].s = [s1 EXCEPT !.transcript = <<>>]]
     /\ disk' = [disk EXCEPT ![resolveTranscriptPath(sessionKey)] = s1.transcript]
     /\ IF s1.pc = "done"
        THEN CommitStore(updateSessionMeta(CurStore, sessionKey,
               [updatedAt |-> None, model |-> procs[i].model,
                totalTokens |-> s1.run.totalUsage.totalTokens],
               s1.now, 200 + i))
        ELSE UNCHANGED <<heap, storeFile, cache>>
     /\ UNCHANGED <<held, upserts, runVars, convVars, logVars, keyVars>>

\* runAgent is called for the i-th run
RunStarts(i) ==
  /\ procs[i].s.pc = "idle"
  /\ CommitRun(i, IterationLoop(Setup(Loaded(i), Loaded(i).now)))

\* the provider call of the i-th run resolves
RunCallSucceeds(i) ==
  /\ procs[i].s.pc = "call"
  /\ \E calls \in ResponseCalls :
       LET s0 == [Loaded(i) EXCEPT !.obs.nextTxt = @ + 1]
           txt == procs[i].s.obs.nextTxt
           msg == AssistantMessage(txt, calls, s0.now)
       IN CommitRun(i, OnCallSuccess(Observed(s0, "ok"), msg, UsageReported(calls),
                                     StreamOf(txt)))

\* the provider call of the i-th run rejects, for a reason that is not retried
RunCallFails(i) ==
  /\ procs[i].s.pc = "call"
  /\ CommitRun(i, OnCallFailure(Observed(Loaded(i), "unknown"), "unknown"))

\* tool.execute of the i-th run resolves, with a short text
RunToolReturns(i) ==
  /\ procs[i].s.pc = "tool_exec"
  /\ LET s0 == [Loaded(i) EXCEPT !.obs.nextTxt = @ + 1]
         tc == s0.run.toolCalls[s0.run.toolIdx]
     IN CommitRun(i, ToolLoop(PushToolResult(s0,
          ToolResultMessage(tc.id, tc.name, procs[i].s.obs.nextTxt,
                            truncateToolResult(10, MaxToolResultChars), FALSE,
                            s0.now))))

NextConcurrent ==
  \E i \in 1..MaxRuns :
    RunStarts(i) \/ RunCallSucceeds(i) \/ RunCallFails(i) \/ RunToolReturns(i)

SpecConcurrent == InitConcurrent /\ [][NextConcurrent]_vars

\* ------------------------------------------------------------------------
\* Properties
\* ------------------------------------------------------------------------

\* the categories the loop retries
RetriableCategories == {"auth", "rate_limit", "billing", "timeout"}

\* the step taken completed a provider call (its outcome is the last of obs.calls')
CallCompleted == Len(obs'.calls) = Len(obs.calls) + 1
LastOutcome == obs'.calls[Len(obs'.calls)].outcome

\* what identifies a transcript record: which message it is, not how long its
\* text is at the moment
RecordKey(r) == <<r.role, r.txt, r.toolCallId, r.calls>>
RecordKeys(rs) == [i \in 1..Len(rs) |-> RecordKey(rs[i])]

\* the retry events delivered so far
RetryEvents(es) == {i \in 1..Len(es) : es[i].type = "retry"}

\* C1: when a run completes (final reply or max-iterations cap), the transcript
\* file holds what it held before the run followed by the run's user message
\* and every assistant message and tool result the run produced, in order.
C1_AppendsExactlyThisRun ==
  pc = "done" =>
    RecordKeys(transcript) =
      RecordKeys(obs.transcript0
                 \o messagesToTranscript(<<UserMessage(TXT_USER, 0)>> \o obs.produced))

\* every tool call of every assistant message of ms is answered by a tool
\* result after it and before the next assistant message
AllAnswered(ms) ==
  \A i \in 1..Len(ms) :
    ms[i].role = "assistant" =>
      \A c \in 1..Len(ms[i].calls) :
        \E j \in (i + 1)..Len(ms) :
          /\ ms[j].role = "toolResult"
          /\ ms[j].toolCallId = ms[i].calls[c].id
          /\ \A k \in (i + 1)..j : ms[k].role # "assistant"

\* C2: in every message list handed to the provider, each tool call of an
\* assistant message has its tool result before the next assistant message.
C2_ToolCallsAnswered == pc = "call" => AllAnswered(run.messages)

\* a provider call after a compaction that replaced the list, the list holding a
\* synthetic result of the repair and a tool call this run produced
C2_Witness ==
  /\ pc = "call"
  /\ "compaction" \in Range(obs.stages)
  /\ \E i \in 1..Len(run.messages) : run.messages[i].txt = TXT_MISSING
  /\ \E i \in 1..Len(run.messages) : run.messages[i].txt = TXT_SUMMARY

\* C3: a run that ends by propagating an error leaves the transcript file as it
\* was before the run.
C3_FailedRunPersistsNothing == pc = "failed" => transcript = obs.transcript0

\* a failed run that had produced an assistant message and a tool result
C3_Witness == pc = "failed" /\ Len(obs.produced) >= 2

\* the context-overflow failures of the current iteration
OverflowsOfIteration ==
  Cardinality({i \in 1..Len(obs.calls) :
                 /\ obs.calls[i].iteration = run.iterations
                 /\ obs.calls[i].outcome = "context_overflow"})

\* C4: within one iteration the k-th context overflow is handled by the k-th of
\* compaction, truncation, terminal failure: no stage twice, none out of order,
\* and the third overflow fails the run with the terminal overflow error.
C4_OverflowStagesInOrder ==
  /\ OverflowsOfIteration <= 3
  /\ obs.stages = SubSeq(<<"compaction", "truncation", "terminal">>, 1,
                         OverflowsOfIteration)
  /\ OverflowsOfIteration = 3 => pc = "failed" /\ run.error = "terminal_overflow"

C4_Witness == obs.stages = <<"compaction", "truncation", "terminal">>

\* the cooldown a failure leaves on a profile whose cooldown was c
DoubledCooldown(c) == IF 2 * c <= 60000 THEN 2 * c ELSE 60000

\* the step from a provider call that failed with a retriable category while
\* retry budget remained
RetriableStepWithBudget ==
  /\ CallCompleted
  /\ LastOutcome \in RetriableCategories
  /\ run.retries < config.maxRetries

\* C5: on a retriable failure with budget left the loop marks the failing
\* profile failed (failedAt = now, cooldown doubled up to the cap), moves the
\* index to (index + 1) mod n, emits one retry event, uses one unit of budget,
\* and attempts the provider call again in the same iteration: unless the caller
\* cancels, the run does not fail between the retry and the next attempt.
C5_RetryStepReattempts ==
  [][/\ RetriableStepWithBudget =>
          LET cur == run.currentProfileIndex
              nextIdx == (cur + 1) % config.profiles
          IN /\ run'.profileStates[cur].failedAt = now'
             /\ run'.profileStates[cur].cooldownMs =
                  DoubledCooldown(run.profileStates[cur].cooldownMs)
             /\ IF pc' = "call" THEN obs'.selectedFrom = nextIdx
                                ELSE run'.currentProfileIndex = nextIdx
             /\ Cardinality(RetryEvents(events')) = Cardinality(RetryEvents(events)) + 1
             /\ run'.retries = run.retries + 1
             /\ run'.iterations = run.iterations
     /\ (pc' = "failed" /\ obs'.retryPending) => run'.error = "cancelled"
    ]_vars

\* C6: in one iteration the loop starts at most maxRetries + 1 provider calls,
\* the calls that follow an overflow recovery stage not counted.
C6_AttemptsBounded == obs.attempts <= config.maxRetries + 1

\* an iteration that used all its attempts and also re-attempted after an
\* overflow recovery
C6_Witness ==
  /\ config.maxRetries >= 1
  /\ obs.attempts = config.maxRetries + 1
  /\ obs.reattempts >= 1

\* C7: a retriable failure that finds the retry budget used up ends the run
\* with that failure: nothing is retried and no further provider call is made.
C7_ExhaustedBudgetPropagates ==
  [][/\ (/\ CallCompleted
         /\ LastOutcome \in RetriableCategories
         /\ run.retries >= config.maxRetries)
        => /\ pc' = "failed"
           /\ run'.error = LastOutcome
           /\ events' = events
           /\ run'.retries = run.retries
     /\ pc # "failed"
    ]_vars

\* a run that failed with a retriable category after it had used its budget
C7_Witness ==
  /\ pc = "failed"
  /\ run.error \in RetriableCategories
  /\ config.maxRetries >= 1
  /\ run.retries = config.maxRetries

\* C8: once a selection finds every profile cooling down with no retry budget
\* left, the run waits for a bounded time and then fails with the
\* retries-exhausted error; it makes no further call and returns no result (a
\* caller that cancels during the wait gets the cancellation instead).
C8_AllCoolingNoBudgetFails ==
  [][/\ obs'.coolingNoBudget =>
          /\ pc' \in {"sleep", "failed"}
          /\ pc' = "sleep" => run'.sleepMs <= 60000 /\ ~aborted
          /\ pc' = "failed" =>
               run'.error = IF aborted' THEN "cancelled" ELSE "retries_exhausted"
     /\ (obs.coolingNoBudget /\ pc = "sleep") => (pc' = "failed" \/ (aborted' /\ ~aborted))
    ]_vars

C8_Witness ==
  /\ obs.coolingNoBudget
  /\ pc = "failed"
  /\ run.error = "retries_exhausted"
  /\ ~aborted

\* C9: a failure classified quota or unknown ends the run with that failure at
\* once: the loop emits no event (so no retry event), no profile state, index
\* or retry count changes,
\* and no further provider call is made.
C9_TerminalCategoriesPropagate ==
  [][/\ (CallCompleted /\ LastOutcome \in {"quota", "unknown"})
        => /\ pc' = "failed"
           /\ run'.error = LastOutcome
           /\ events' = events
           /\ run'.profileStates = run.profileStates
           /\ run'.currentProfileIndex = run.currentProfileIndex
           /\ run'.retries = run.retries
     /\ pc # "failed"
    ]_vars

\* a run that failed with quota on a later call although retry budget was left
C9_Witness ==
  /\ pc = "failed"
  /\ run.error = "quota"
  /\ Len(obs.calls) >= 2
  /\ run.retries >= 1
  /\ run.retries < config.maxRetries

\* profile i is available at time t
Available(i, t) ==
  \/ run.profileStates[i].failedAt = None
  \/ t - run.profileStates[i].failedAt >= run.profileStates[i].cooldownMs

\* C10: the profile of every provider call attempt is available when it is
\* selected (never failed, or cooldownMs or more have passed since its failure)
\* and every profile before it in cyclic order from the current index is not.
C10_FirstAvailableInCyclicOrder ==
  pc = "call" =>
    \E k \in 0..(config.profiles - 1) :
      /\ run.currentProfileIndex = (obs.selectedFrom + k) % config.profiles
      /\ Available(run.currentProfileIndex, now)
      /\ \A j \in 0..(k - 1) :
           ~Available((obs.selectedFrom + j) % config.profiles, now)

\* a call on a profile other than the one at the current index, selected at the
\* very moment its cooldown ends
C10_Witness ==
  /\ pc = "call"
  /\ run.currentProfileIndex # obs.selectedFrom
  /\ run.profileStates[run.currentProfileIndex].failedAt # None
  /\ now - run.profileStates[run.currentProfileIndex].failedAt =
       run.profileStates[run.currentProfileIndex].cooldownMs

RECURSIVE Pow2(_)
Pow2(k) == IF k = 0 THEN 1 ELSE 2 * Pow2(k - 1)

\* C11: for every profile, cooldownMs = min(1000 * 2^k, 60000) where k counts
\* the markProfileFailed calls on it since the start or since its last
\* markProfileGood; with k = 0 the cooldown is 1000 ms and failedAt is clear.
C11_CooldownDoublesToCap ==
  \A i \in DOMAIN run.profileStates :
    LET k == obs.failures[i]
        doubled == 1000 * Pow2(k)
    IN /\ run.profileStates[i].cooldownMs = (IF doubled <= 60000 THEN doubled ELSE 60000)
       /\ run.profileStates[i].cooldownMs <= 60000
       /\ k = 0 => /\ run.profileStates[i].cooldownMs = 1000
                   /\ run.profileStates[i].failedAt = None

\* a profile that reached the cap, failed once more, and another that was reset
\* by a success after failures
C11_Witness ==
  \E i, j \in DOMAIN run.profileStates :
    /\ obs.failures[i] >= 7
    /\ run.profileStates[i].cooldownMs = 60000
    /\ i # j
    /\ obs.failures[j] = 0
    /\ now > 0

\* the step handles a context overflow of a provider call, or completes the
\* compaction that such a failure started
OverflowStep == (CallCompleted /\ LastOutcome = "context_overflow") \/ pc = "summarize"

\* C12: handling a context overflow uses no retry budget and rotates nothing:
\* the retry counter, the current profile index and every profile's state are
\* after the stage what they were before the failing attempt, and the call that
\* follows is made with the same profile.
C12_RecoveryKeepsBudgetAndProfile ==
  [][OverflowStep =>
       /\ run'.retries = run.retries
       /\ run'.currentProfileIndex = run.currentProfileIndex
       /\ run'.profileStates = run.profileStates
       /\ pc' = "call" => obs'.selectedFrom = run.currentProfileIndex
    ]_vars

\* a provider call made again after a recovery stage, in an iteration that had
\* already used retry budget and rotated
C12_Witness ==
  /\ pc = "call"
  /\ Len(obs.calls) >= 2
  /\ obs.calls[Len(obs.calls)].outcome = "context_overflow"
  /\ run.retries >= 1
  /\ run.currentProfileIndex = 1
  /\ "truncation" \in Range(obs.stages)

\* the compaction events delivered so far
CompactionEvents(es) == {i \in 1..Len(es) : es[i].type = "compaction"}

\* C13: a compaction event is emitted exactly when the recovery stage that just
\* ran changed the message list; no other step emits one.
C13_CompactionEventIffChanged ==
  [][LET emitted == Cardinality(CompactionEvents(events'))
                    - Cardinality(CompactionEvents(events))
     IN IF OverflowStep
        THEN /\ emitted \in {0, 1}
             /\ emitted = 1 <=> run'.messages # run.messages
        ELSE emitted = 0
    ]_vars

\* C14: the text of every tool result the run produces from a tool's output is,
\* after bounding, at most maxToolResultChars long.
C14_ToolResultWithinCap ==
  \A i \in 1..Len(obs.produced) :
    obs.produced[i].role = "toolResult" => obs.produced[i].len <= MaxToolResultChars

\* C15: once the signal is aborted the run starts no further provider call and
\* no further tool invocation, and waits no more: the step that follows the
\* abort ends the run, with the cancellation reason when it comes to a
\* checkpoint (iteration start, before a call attempt, between tool calls,
\* cooldown sleep), and otherwise with the failure or the result that ended the
\* run before any checkpoint.
C15_NothingStartedAfterAbort ==
  [][aborted =>
       \/ pc' = "failed" /\ run'.error = "cancelled"
       \/ pc' = "failed" /\ CallCompleted /\ run'.error \in {LastOutcome, "terminal_overflow"}
       \/ pc' = "failed" /\ pc = "summarize" /\ run'.error = "summarize_failed"
       \/ pc' = "done"
    ]_vars

\* C16: a run called with the signal already aborted rejects with the
\* cancellation reason at once: no provider call, no tool invocation, no event,
\* and the transcript file is what it was.
C16_PreAbortedRunRejects ==
  [][(pc = "idle" /\ aborted) =>
       /\ pc' = "failed"
       /\ run'.error = "cancelled"
       /\ transcript' = transcript
       /\ obs'.calls = <<>>
       /\ obs'.produced = <<>>
       /\ events' = <<>>
    ]_vars

\* a pre-aborted run on a session with history has rejected
C16_Witness ==
  /\ pc = "failed"
  /\ run.error = "cancelled"
  /\ obs.calls = <<>>
  /\ events = <<>>
  /\ Len(transcript) > 0

\* the assistant messages the run produced, as positions in obs.produced
AssistantsProduced == {i \in 1..Len(obs.produced) : obs.produced[i].role = "assistant"}
ToolResultsProduced == {i \in 1..Len(obs.produced) : obs.produced[i].role = "toolResult"}

\* the provider calls of the run that succeeded, as positions in obs.calls
SuccessfulCalls == {i \in 1..Len(obs.calls) : obs.calls[i].outcome = "ok"}

RECURSIVE SumOfCalls(_, _)
SumOfCalls(ps, k) == IF k = 0 THEN 0 ELSE Len(ps[k].calls) + SumOfCalls(ps, k - 1)

\* C17: a run in which every successful provider call returned a tool call ends
\* at the cap: it made exactly maxIterations successful calls, every tool call
\* of every one of them has its tool result, and the result has iterations =
\* maxIterations, maxIterationsReached = true and the text of the last assistant
\* message as reply.
C17_StopsAtMaxIterations ==
  (pc = "done" /\ \A i \in AssistantsProduced : Len(obs.produced[i].calls) > 0) =>
    /\ Cardinality(SuccessfulCalls) = config.maxIterations
    /\ Cardinality(AssistantsProduced) = config.maxIterations
    /\ AllAnswered(obs.produced)
    /\ Cardinality(ToolResultsProduced) = SumOfCalls(obs.produced, Len(obs.produced))
    /\ run.result.iterations = config.maxIterations
    /\ run.result.maxIterationsReached
    /\ \E last \in AssistantsProduced :
         /\ \A i \in AssistantsProduced : i <= last
         /\ run.result.reply = obs.produced[last].txt

\* a run of two iterations at the cap, one response with two tool calls, and a
\* retried failure on the way
C17_Witness ==
  /\ pc = "done"
  /\ run.result.maxIterationsReached
  /\ config.maxIterations = 2
  /\ Cardinality(ToolResultsProduced) >= 3
  /\ Len(obs.calls) > 2

\* the events of the messages ps[k..], the first assistant among them being of
\* iteration it: llm_start, the stream, llm_end, then tool_start and tool_end
\* for each tool call in content order
RECURSIVE ExpectedEvents(_, _, _)
ExpectedEvents(ps, k, it) ==
  IF k > Len(ps) THEN <<>>
  ELSE IF ps[k].role = "assistant"
  THEN <<[type |-> "llm_start", iteration |-> it]>>
       \o [j \in 1..2 |-> [type |-> "llm_stream", event |-> StreamOf(ps[k].txt)[j]]]
       \o <<[type |-> "llm_end", message |-> ps[k].txt]>>
       \o ExpectedEvents(ps, k + 1, it + 1)
  ELSE <<[type |-> "tool_start", toolCallId |-> ps[k].toolCallId],
         [type |-> "tool_end", toolCallId |-> ps[k].toolCallId,
          isError |-> ps[k].isError]>>
       \o ExpectedEvents(ps, k + 1, it)

\* the ids of the tool results that follow the assistant message at position k
\* are the ids of its tool calls, in content order
ResultsInContentOrder(ps) ==
  \A k \in 1..Len(ps) :
    ps[k].role = "assistant" =>
      \A j \in 1..Len(ps[k].calls) :
        (k + j <= Len(ps)) =>
          /\ ps[k + j].role = "toolResult"
          /\ ps[k + j].toolCallId = ps[k].calls[j].id

\* C18: in a completed run in which no provider call failed, the events are,
\* iteration by iteration, llm_start(i), the stream's events in provider order,
\* llm_end, then tool_start and tool_end for each tool call in content order,
\* and done exactly once, last.
C18_EventOrder ==
  (pc = "done" /\ SuccessfulCalls = 1..Len(obs.calls)) =>
    /\ events = ExpectedEvents(obs.produced, 1, 0) \o <<[type |-> "done"]>>
    /\ ResultsInContentOrder(obs.produced)

\* a completed run without failures: two iterations, the first with two tool
\* calls
C18_Witness ==
  /\ pc = "done"
  /\ SuccessfulCalls = 1..Len(obs.calls)
  /\ Len(obs.calls) = 2
  /\ Len(obs.produced) = 4
  /\ ~run.result.maxIterationsReached

\* the tool results this step added to the run
NewToolErrors ==
  {i \in (Len(obs.produced) + 1)..Len(obs'.produced) :
     obs'.produced[i].role = "toolResult" /\ obs'.produced[i].isError}
NewEvents == SubSeq(events', Len(events) + 1, Len(events'))

\* C19: a tool call that names an unknown tool or whose tool raises does not end
\* the run: it gives a tool result with the call's id and isError = true and a
\* tool_end event with isError = true, and the loop goes on with the remaining
\* tool calls and then the next provider call (the run ends there only at the
\* iteration cap or on cancellation).
C19_ToolErrorsCaptured ==
  [][/\ \A i \in ToolResultsProduced :
          \* which results are error results
          /\ obs.produced[i].isError <=>
               obs.produced[i].txt \in {TXT_UNKNOWN_TOOL, TXT_TOOL_ERROR}
          /\ obs.produced[i].toolName \notin ToolNames => obs.produced[i].isError
     /\ ResultsInContentOrder(obs'.produced)
     \* whatever a tool does, its call gets its result
     /\ pc = "tool_exec" /\ run' # run =>
          /\ Len(obs'.produced) > Len(obs.produced)
          /\ obs'.produced[Len(obs.produced) + 1].role = "toolResult"
          /\ obs'.produced[Len(obs.produced) + 1].toolCallId =
               run.toolCalls[run.toolIdx].id
     /\ NewToolErrors # {} =>
          /\ \A i \in NewToolErrors :
               \E e \in 1..Len(NewEvents) :
                 NewEvents[e] = [type |-> "tool_end",
                                 toolCallId |-> obs'.produced[i].toolCallId,
                                 isError |-> TRUE]
          /\ \/ pc' = "tool_exec"
             \/ pc' \in {"call", "sleep"} /\ AllAnswered(obs'.produced)
             \/ pc' = "done" /\ run'.result.maxIterationsReached
                             /\ AllAnswered(obs'.produced)
             \/ pc' = "failed" /\ aborted /\ run'.error = "cancelled"
    ]_vars

\* a provider call that follows a response whose tool calls both failed, one
\* naming an unknown tool and one raising
C19_Witness ==
  /\ pc = "call"
  /\ \E i, j \in ToolResultsProduced :
       /\ obs.produced[i].txt = TXT_UNKNOWN_TOOL
       /\ obs.produced[j].txt = TXT_TOOL_ERROR

RECURSIVE SumInput(_, _), SumOutput(_, _), SumTotal(_, _)
SumInput(us, k) == IF k = 0 THEN 0 ELSE us[k].input + SumInput(us, k - 1)
SumOutput(us, k) == IF k = 0 THEN 0 ELSE us[k].output + SumOutput(us, k - 1)
SumTotal(us, k) == IF k = 0 THEN 0 ELSE us[k].totalTokens + SumTotal(us, k - 1)
RECURSIVE SumCostInput(_, _), SumCostOutput(_, _), SumCostTotal(_, _)
SumCostInput(us, k) == IF k = 0 THEN 0 ELSE us[k].cost.input + SumCostInput(us, k - 1)
SumCostOutput(us, k) == IF k = 0 THEN 0 ELSE us[k].cost.output + SumCostOutput(us, k - 1)
SumCostTotal(us, k) == IF k = 0 THEN 0 ELSE us[k].cost.total + SumCostTotal(us, k - 1)

C21_RepairAnswersEveryCall ==
  op = "repair" =>
    \A i \in 1..Len(output) :
      output[i].role = "assistant" =>
        \A c \in 1..Len(output[i].calls) :
          \E j \in (i + 1)..Len(output) :
            /\ output[j].role = "toolResult"
            /\ output[j].toolCallId = output[i].calls[c].id
            /\ \A k \in (i + 1)..(j - 1) : output[k].role # "assistant"

\* a list with an unanswered call, an answered one and a call answered only
\* after the next assistant message has been repaired
C21_Witness ==
  /\ op = "repair"
  /\ Len(input) = 4
  /\ input[1].role = "assistant" /\ Len(input[1].calls) = 2
  /\ input[2].role = "toolResult" /\ input[2].toolCallId = "b"
  /\ input[3].role = "assistant" /\ input[3].calls = <<>>
  /\ input[4].role = "toolResult" /\ input[4].toolCallId = "a"
  /\ Len(output) = 5

\* C22: repairOrphanedToolCalls is idempotent, tool-call identifiers unique or
\* not: repairing what the repair returned gives the same list back.
C22_RepairIdempotent ==
  op = "repair_again" => output = input

\* the second repair was handed a list with two synthetic results for two
\* calls of the same id
C22_Witness ==
  /\ op = "repair_again"
  /\ \E i \in 1..Len(input) :
       /\ input[i].role = "assistant"
       /\ Len(input[i].calls) = 2
       /\ input[i].calls[1].id = input[i].calls[2].id
       /\ i + 2 <= Len(input)
       /\ input[i + 1].txt = TXT_MISSING
       /\ input[i + 2].txt = TXT_MISSING

\* m is a synthetic result for a call of the assistant message a
SyntheticFor(m, a) ==
  /\ a.role = "assistant"
  /\ m.role = "toolResult"
  /\ m.txt = TXT_MISSING
  /\ m.blocks = SingleText
  /\ m.isError
  /\ m.ts = a.ts
  /\ \E c \in 1..Len(a.calls) :
       m.toolCallId = a.calls[c].id /\ m.toolName = a.calls[c].name

\* out is the list L with synthetic results inserted, each in the run of
\* messages that directly follows the assistant message prev it answers
RECURSIVE OnlyInserts(_, _, _)
OnlyInserts(L, out, prev) ==
  IF out = <<>> THEN L = <<>>
  ELSE \/ /\ L # <<>>
          /\ Head(out) = Head(L)
          /\ OnlyInserts(Tail(L), Tail(out), Head(L))
       \/ /\ SyntheticFor(Head(out), prev)
          /\ OnlyInserts(L, Tail(out), prev)

\* C23: repairOrphanedToolCalls only inserts: without the synthetic results
\* its output is the input, unchanged and in the same order, and every
\* synthetic result directly follows the assistant message whose call it
\* answers (before the tool results that already followed it), with the
\* call's id and name, the error flag set and the assistant's timestamp.
C23_RepairOnlyInserts ==
  op = "repair" =>
    /\ OnlyInserts(input, output, UserMessage(TXT_USER, 0))
    /\ \A i \in 1..Len(output) :
         output[i].txt = TXT_MISSING =>
           \E a \in 1..(i - 1) :
             /\ SyntheticFor(output[i], output[a])
             /\ \A k \in (a + 1)..(i - 1) : output[k].txt = TXT_MISSING

\* one of two calls was answered already: the synthetic result for the other
\* one stands between the assistant message and the result that followed it
C23_Witness ==
  /\ op = "repair"
  /\ Len(input) >= 3
  /\ input[2].role = "assistant" /\ Len(input[2].calls) = 2
  /\ input[3].role = "toolResult" /\ input[3].toolCallId = "a"
  /\ Len(output) > 3
  /\ output[3].txt = TXT_MISSING /\ output[3].toolCallId = "b"
  /\ output[4] = input[3]

\* C24: transcriptToMessages(messagesToTranscript(L)) is as long as L and keeps,
\* message by message, the role, the sequence of content blocks, the tool-call
\* identifiers, the tool names, the error flags and the timestamps.
C24_RoundTripPreserves ==
  op = "round_trip" =>
    /\ Len(output) = Len(input)
    /\ \A i \in 1..Len(input) :
         /\ output[i].role = input[i].role
         /\ output[i].blocks = input[i].blocks
         /\ output[i].calls = input[i].calls
         /\ output[i].toolCallId = input[i].toolCallId
         /\ output[i].toolName = input[i].toolName
         /\ output[i].isError = input[i].isError
         /\ output[i].ts = input[i].ts

\* l is one message record: parseable, no header, with a role and a content
IsMessageRecord(l) ==
  l.shape = "json" /\ l.type # "session" /\ l.role # "" /\ l.txt # None

\* C25: after any sequence of appendMessage and appendMessages calls on a
\* session whose transcript file did not exist at first, the first line of the
\* file is the session header of that key, no other line is a header and
\* every other non-blank line is one message record.
C25_HeaderFirstAndOnly ==
  \A key \in DOMAIN files :
    files[key].exists =>
      LET lines == files[key].lines
      IN /\ Len(lines) >= 1
         /\ lines[1].shape = "json"
         /\ lines[1].type = "session"
         /\ lines[1].sessionKey = key
         /\ \A i \in 2..Len(lines) :
              /\ lines[i].type # "session"
              /\ lines[i].shape # "blank" => IsMessageRecord(lines[i])

\* three calls on one session, the single appends before and after the batch
C25_Witness ==
  /\ writing = NoWrite
  /\ Len(appends) = 3
  /\ \A a \in 1..3 : appends[a].key = K1
  /\ ~appends[1].batch /\ appends[2].batch /\ ~appends[3].batch
  /\ Len(appends[2].txts) = 2
  /\ files # <<>>
  /\ Len(files[K1].lines) = 5

\* the records of the call a that are in the file of its session
OnDisk(a) ==
  {i \in 1..Len(a.txts) :
     \E l \in 1..Len(files[a.key].lines) :
       IsMessageRecord(files[a.key].lines[l]) /\ files[a.key].lines[l].txt = a.txts[i]}

\* C27: appendMessages puts the records of a batch on disk in one filesystem
\* write: at every point between two filesystem writes, and so whenever the
\* process is interrupted there, the transcript holds all the records of a
\* batch or none of them.
C27_BatchAllOrNothing ==
  \A c \in 1..Len(appends) :
    appends[c].batch => OnDisk(appends[c]) \in {{}, 1..Len(appends[c].txts)}

\* the process was interrupted after the header write of a batch of two,
\* which left none of its records, and a later batch of two is on disk whole
C27_Witness ==
  /\ writing = NoWrite
  /\ Len(appends) = 2
  /\ appends[1].batch /\ appends[1].key = K1 /\ Len(appends[1].txts) = 2
  /\ appends[2].batch /\ appends[2].key = K1 /\ Len(appends[2].txts) = 2
  /\ OnDisk(appends[1]) = {}
  /\ OnDisk(appends[2]) = {1, 2}

\* the valid message lines of a file, in file order, as messages
RECURSIVE ValidMessages(_)
ValidMessages(lines) ==
  IF lines = <<>> THEN <<>>
  ELSE (IF IsMessageRecord(Head(lines))
        THEN <<[role |-> Head(lines).role, txt |-> Head(lines).txt,
                ts |-> Head(lines).ts]>>
        ELSE <<>>)
       \o ValidMessages(Tail(lines))

\* C26: on a file made of a valid header, n valid message lines and m blank
\* or malformed lines anywhere among them, countMessages returns n and
\* loadTranscript returns the n valid messages in file order.  A line is
\* malformed when it is no parseable JSON or is a JSON record without a text
\* role or without a text content.
C26_ReadersSkipMalformed ==
  op \in {"load", "count"} /\ files[input].exists =>
    LET valid == ValidMessages(files[input].lines)
    IN /\ op = "load" => output = valid
       /\ op = "count" => output = Len(valid)

\* the part of C26 that is about loadTranscript
C26_LoadSkipsMalformed ==
  op = "load" /\ files[input].exists =>
    output = ValidMessages(files[input].lines)

\* the objects a map is made of: the map object and its entry objects
ObjectsOf(ref) ==
  {<<"map", ref>>} \cup {<<"entry", heap.maps[ref][k]>> : k \in DOMAIN heap.maps[ref]}

CacheObjects == IF cache.store = NoRef THEN {} ELSE ObjectsOf(cache.store)

\* C28: every map loadSessionStore returns is a deep copy.  No returned map
\* shares an object with the cache, with the map that was saved or with a map
\* returned earlier, and no entry updateSessionMeta returned is an object of
\* the cache; so the writes of callers to these objects leave the cache as
\* the file has it, and a load that follows a save with the same
\* last-modified time returns a map equal to the saved one.
C28_LoadReturnsDeepCopy ==
  /\ \A i \in 1..Len(held.maps) :
       /\ ObjectsOf(held.maps[i]) \cap CacheObjects = {}
       /\ \A j \in 1..(i - 1) :
            ObjectsOf(held.maps[i]) \cap ObjectsOf(held.maps[j]) = {}
  /\ \A i \in 1..Len(held.entries) : <<"entry", held.entries[i]>> \notin CacheObjects
  /\ cache.store # NoRef /\ storeFile.exists /\ cache.mtime = storeFile.mtime =>
       ValueOf(heap, cache.store) = storeFile.value
  /\ op = "load" =>
       ValueOf(heap, output) = IF storeFile.exists THEN storeFile.value ELSE <<>>

\* a caller saved a map it had loaded and then wrote to it; the load that
\* followed, served from the cache, returned the map as it was saved
C28_Witness ==
  /\ op = "load"
  /\ input = FALSE
  /\ held.saves = 1
  /\ held.writes = 1
  /\ Len(held.maps) = 2
  /\ cache.store # NoRef
  /\ cache.mtime = storeFile.mtime
  /\ DOMAIN storeFile.value # {}
  /\ ValueOf(heap, held.maps[1]) # storeFile.value
  /\ ValueOf(heap, held.maps[2]) = storeFile.value

\* the call that created the entry the i-th updateSessionMeta call found
CreationOf(i) ==
  {j \in 1..(i - 1) :
     /\ upserts[j].key = upserts[i].key
     /\ ~upserts[j].existed
     /\ \A k \in (j + 1)..i : upserts[k].key = upserts[i].key => upserts[k].existed}

C30_UpdatedAtRefreshed ==
  \A i \in 1..Len(upserts) :
    /\ upserts[i].returned.updatedAt = upserts[i].at
    /\ upserts[i].stored.updatedAt = upserts[i].at

\* the part of C30 that is about updating an existing entry
C30_UpdateRefreshesUpdatedAt ==
  \A i \in 1..Len(upserts) :
    upserts[i].existed =>
      /\ upserts[i].returned.updatedAt = upserts[i].at
      /\ upserts[i].stored.updatedAt = upserts[i].at

\* ------------------------------------------------------------------------
\* Session keys
\* ------------------------------------------------------------------------

\* C31: parsing a key that buildSessionKey returned succeeds and gives back
\* exactly the normalised fields the key was built from.
C31_ParseInvertsBuild ==
  \A i \in 1..Len(parsedKeys) :
    /\ parsedKeys[i].matched
    /\ parsedKeys[i] =
         NormalizedFields(keyParams[i]) @@ [matched |-> TRUE]

\* the part of C31 about keys whose agent, channel and account segments have
\* no colon
C31_ParseInvertsBuildWithoutColon ==
  \A i \in 1..Len(parsedKeys) :
    LET f == NormalizedFields(keyParams[i])
    IN (\A seg \in {f.agentId, f.channel, f.accountId} :
          \A c \in 1..Len(seg) : seg[c] # ":")
       => parsedKeys[i] = f @@ [matched |-> TRUE]

\* C39: two different keys that buildSessionKey returned have different slugs.
C39_DistinctKeysDistinctSlugs ==
  \A i, j \in 1..Len(slugs) :
    built[i] # built[j] => slugs[i] # slugs[j]

\* ------------------------------------------------------------------------
\* The run, continued
\* ------------------------------------------------------------------------

\* C33: when an iteration's tool calls are done and the next iteration
\* begins, both recovery flags are clear; and in every iteration, the first
\* one or a later one, the first context overflow is answered by compaction
\* and the second by truncation.
C33_FlagsClearedForNextIteration ==
  [][/\ run'.iterations > run.iterations =>
          ~run'.compactionAttempted /\ ~run'.truncationAttempted
     /\ CallCompleted /\ LastOutcome = "context_overflow" =>
          /\ OverflowsOfIteration = 0 =>
               /\ obs'.stages = <<"compaction">>
               /\ run'.compactionAttempted /\ ~run'.truncationAttempted
          /\ OverflowsOfIteration = 1 =>
               /\ obs'.stages = <<"compaction", "truncation">>
               /\ run'.compactionAttempted /\ run'.truncationAttempted
    ]_vars

\* a second iteration that has gone through compaction and truncation after
\* the first iteration had gone through both as well
C33_Witness ==
  /\ run.iterations = 1
  /\ obs.stages = <<"compaction", "truncation">>
  /\ Cardinality({i \in 1..Len(obs.calls) :
                    /\ obs.calls[i].iteration = 0
                    /\ obs.calls[i].outcome = "context_overflow"}) = 2

\* C34: waiting for a cooldown uses no retry budget: with one profile, a run
\* whose every provider call failed with a retriable error has, when it
\* fails, made exactly maxRetries + 1 provider calls.
C34_CooldownWaitKeepsBudget ==
  ( /\ config.profiles = 1
    /\ pc = "failed"
    /\ run.error \in RetriableCategories \cup {"retries_exhausted"}
    /\ \A i \in 1..Len(obs.calls) : obs.calls[i].outcome \in RetriableCategories )
  => Len(obs.calls) = config.maxRetries + 1

\* C35: a run that fails while it handles a context overflow (in the step
\* that takes the overflow failure, or in the step that ends the summariser
\* call of the compaction) fails with the terminal overflow error, after
\* compaction and truncation were both attempted in the iteration.  A run
\* that is cancelled at that moment is left out.
C35_OverflowFailureIsTerminal ==
  [][(OverflowStep /\ pc' = "failed" /\ pc # "failed" /\ run'.error # "cancelled") =>
       /\ run'.error = "terminal_overflow"
       /\ obs'.stages = <<"compaction", "truncation", "terminal">>
    ]_vars

\* the part of C35 that is about overflow failures of provider calls
C35_OverflowedCallFailsTerminal ==
  [][(CallCompleted /\ LastOutcome = "context_overflow" /\ pc' = "failed"
        /\ run'.error # "cancelled") =>
       /\ run'.error = "terminal_overflow"
       /\ obs'.stages = <<"compaction", "truncation", "terminal">>
    ]_vars

\* Every await of the run settles: the provider call, the summariser call
\* and tool.execute resolve or reject, and the sleep's timer fires or its
\* abort listener rejects it.  The caller may abort or not.
Fairness ==
  /\ WF_vars(StartRun)
  /\ WF_vars(CallSucceeds \/ CallFails)
  /\ WF_vars(SummarizeReturns \/ SummarizeFails)
  /\ WF_vars(ToolReturns \/ ToolRaises)
  /\ WF_vars(SleepWakes \/ SleepAborted)

\* the runs whose termination is followed: not aborted before they start,
\* with budget for one retry, and with a history long enough for the
\* summariser to be called
InitLive ==
  /\ config \in [profiles : 1..MaxProfiles, maxRetries : {1},
                  maxIterations : 1..MaxIterationsCfg]
  /\ transcript \in {h \in Histories : Len(h) >= DEFAULT_COMPACTION_RECENT_COUNT}
  /\ aborted = FALSE
  /\ now = 0
  /\ pc = "idle"
  /\ run = InitialLocals
  /\ events = <<>>
  /\ obs = InitialObs
  /\ LibIdle

SpecLive == InitLive /\ [][Next]_vars /\ Fairness

\* the provider call attempts of iteration k
CallsOfIteration(k) ==
  Cardinality({i \in 1..Len(obs.calls) : obs.calls[i].iteration = k})

\* the loops of the run stay within their bounds
RunBounded ==
  /\ run.iterations <= config.maxIterations
  /\ \A k \in 0..MaxIterationsCfg : CallsOfIteration(k) <= config.maxRetries + 3
  /\ Cardinality({i \in 1..Len(obs.stages) : obs.stages[i] = "compaction"}) <= 1
  /\ pc = "summarize" => obs.stages = <<"compaction">>

\* C36: every run settles (with a result or an error) when each of its
\* awaits settles; it makes at most maxIterations iterations, and in one
\* iteration at most maxRetries + 3 provider call attempts and at most one
\* summariser call.
C36_RunTerminates == []RunBounded /\ <>(pc \in {"done", "failed"})

\* a settled run one of whose iterations took maxRetries + 3 provider call
\* attempts and a summariser call
C36_Witness ==
  /\ pc \in {"done", "failed"}
  /\ config.maxRetries >= 1
  /\ \E k \in 0..MaxIterationsCfg : CallsOfIteration(k) = config.maxRetries + 3
  /\ \E i \in 1..Len(events) :
       events[i].type = "compaction" /\ events[i].newCount < events[i].oldCount

\* the last assistant message before position j, 0 if there is none
RECURSIVE LastAssistantBefore(_, _)
LastAssistantBefore(ms, j) ==
  IF j <= 1 THEN 0
  ELSE IF ms[j - 1].role = "assistant" THEN j - 1
  ELSE LastAssistantBefore(ms, j - 1)

\* every tool result follows the assistant message that made its call
ResultsFollowTheirCalls(ms) ==
  \A j \in 1..Len(ms) :
    ms[j].role = "toolResult" =>
      LET a == LastAssistantBefore(ms, j)
      IN /\ a > 0
         /\ \E c \in 1..Len(ms[a].calls) : ms[a].calls[c].id = ms[j].toolCallId

\* C37: in the message list of every provider call, each tool result is
\* preceded by an assistant message with a tool call of its id, and no other
\* assistant message stands between the two.
C37_ResultsFollowTheirCalls ==
  pc = "call" => ResultsFollowTheirCalls(run.messages)

\* the part of C37 about message lists that no compaction has shortened
C37_ResultsFollowTheirCallsUncompacted ==
  (pc = "call" /\ \A i \in 1..Len(run.messages) : run.messages[i].txt # TXT_SUMMARY)
    => ResultsFollowTheirCalls(run.messages)

\* the step ran the truncation stage
TruncationStep ==
  /\ Len(obs'.stages) = Len(obs.stages) + 1
  /\ obs'.stages[Len(obs'.stages)] = "truncation"

\* C38: the truncation stage is idempotent: applied to the message list
\* that a truncation stage has left, it changes nothing.
C38_TruncationIdempotent ==
  [][TruncationStep => truncateOversizedToolResults(run'.messages) = run'.messages]_vars

\* the part of C38 about lists without an oversized tool result
C38_TruncationKeepsSmallResults ==
  (\A i \in 1..Len(run.messages) :
     run.messages[i].role = "toolResult" =>
       run.messages[i].len <= DEFAULT_MAX_TOOL_RESULT_TRUNCATE_CHARS)
  => truncateOversizedToolResults(run.messages) = run.messages

\* C40: a provider call attempt that directly follows a retry event (no
\* other event lies between the retry event and the attempt's llm_start) is
\* made with the profile whose id the retry event carries.
C40_RetryEventNamesNextProfile ==
  ( /\ pc = "call"
    /\ Len(events) >= 2
    /\ events[Len(events)].type = "llm_start"
    /\ events[Len(events) - 1].type = "retry" )
  => run.currentProfileIndex = events[Len(events) - 1].profileId

\* the part of C40 about attempts that start in the step of the retry event,
\* with no cooldown wait between the event and the attempt
C40_RetryEventNamesNextProfileWithoutWait ==
  [][( /\ CallCompleted
       /\ pc' = "call"
       /\ Len(events') = Len(events) + 2
       /\ events'[Len(events) + 1].type = "retry" )
     => run'.currentProfileIndex = events'[Len(events) + 1].profileId
    ]_vars

\* ------------------------------------------------------------------------
\* Runs that share a process
\* ------------------------------------------------------------------------

PathOfRun(i) == resolveTranscriptPath(procs[i].sessionKey)

\* the lines the i-th run has to write: the user message and what the run
\* produced, if it returned a result; nothing if it failed
OwnLines(i) ==
  LET s == procs[i].s
  IN IF s.pc = "done"
     THEN messagesToTranscript(<<s.run.messages[s.run.historyLength]>> \o s.obs.produced)
     ELSE <<>>

\* the index has the entry of the i-th run, with the run's model and tokens
IndexHasRun(i) ==
  /\ storeFile.exists
  /\ procs[i].sessionKey \in DOMAIN storeFile.value
  /\ storeFile.value[procs[i].sessionKey].model = procs[i].model
  /\ storeFile.value[procs[i].sessionKey].totalTokens =
       procs[i].s.run.totalUsage.totalTokens

AllRunsSettled == \A i \in 1..MaxRuns : procs[i].s.pc \in {"done", "failed"}

\* C32: runs with different session keys do not interfere: when all have
\* settled, the transcript file of each run's key (empty before) holds
\* exactly the lines of that run, and the index has the entry of every run
\* that returned a result, with that run's model and token total.
C32_ConcurrentRunsDoNotInterfere ==
  AllRunsSettled =>
    \A i \in 1..MaxRuns :
      /\ disk[PathOfRun(i)] = OwnLines(i)
      /\ procs[i].s.pc = "done" => IndexHasRun(i)

\* the part of C32 about runs whose keys have different slugs
C32_RunsOnDistinctPathsDoNotInterfere ==
  (AllRunsSettled /\ \A i, j \in 1..MaxRuns : i # j => PathOfRun(i) # PathOfRun(j)) =>
    \A i \in 1..MaxRuns :
      /\ disk[PathOfRun(i)] = OwnLines(i)
      /\ procs[i].s.pc = "done" => IndexHasRun(i)

\* the part of C32 about the index
C32_IndexHasEveryRun ==
  \A i \in 1..MaxRuns : procs[i].s.pc = "done" => IndexHasRun(i)

====
